---- MODULE Spec2Model ----
(***************************************************************************)
(* Booking / availability core of the hotel booking server.                *)
(*                                                                         *)
(* Persisted tables (users, room_types, rooms, bookings) are the state.    *)
(* Every handler is translated from its TypeScript source: the guards are  *)
(* the handler's throws, the primed variables its INSERT / UPDATE.         *)
(*                                                                         *)
(* A JavaScript Date is an instant.  Instants are counted in ticks, with   *)
(* TicksPerDay ticks to a UTC day; the DATE columns of the database hold   *)
(* whole days.  toISODate is Date.toISOString().split('T')[0].             *)
(***************************************************************************)
EXTENDS Integers, Sequences, FiniteSets, TLC

\* ---------------------------------------------------------------- bounds
MaxBookings == 2
MaxDay == 2
TicksPerDay == 2
MaxGuests == 2
MaxRules == 2
MaxOffers == 1
MaxUses == 2
MaxPayments == 2

\* ------------------------------------------------------------- constants
NULL == 0
Undefined == -1

UserIds == {1}
RoomTypeIds == {1, 2}
RoomIds == {1, 2, 3}
\* ids a request may name: the existing ones and one that does not exist
UserIdInputs == UserIds \cup {2}
RoomTypeIdInputs == RoomTypeIds \cup {3}
RoomIdInputs == RoomIds \cup {4}

Days == 0..MaxDay
Instants == 0..((MaxDay + 1) * TicksPerDay - 1)
\* the instants a calendar date is sent as: UTC midnights
DateInstants == {d * TicksPerDay : d \in Days}

bookingStatusEnum ==
  {"pending", "confirmed", "cancelled", "completed", "checked_in", "checked_out"}

VARIABLES users, roomTypes, rooms, bookings, last, procs,
          seasonalPricing, promoOffers, reply, clients, payments, requests

vars == <<users, roomTypes, rooms, bookings, last, procs,
          seasonalPricing, promoOffers, reply, clients, payments, requests>>

\* ------------------------------------------------------ pure conversions
\* Date.toISOString().split('T')[0]: the UTC calendar day of an instant
toISODate(t) == t \div TicksPerDay

\* new Date('YYYY-MM-DD'): UTC midnight of a calendar day
fromISODate(d) == d * TicksPerDay

BookingIds == 1..Len(bookings)

\* ------------------------------------------------------ room_search.ts
\* SELECT count(*) FROM rooms WHERE room_type_id = ? AND is_available
totalRoomCount(roomTypeId) ==
  Cardinality({r \in RoomIds :
     rooms[r].room_type_id = roomTypeId /\ rooms[r].is_available})

\* variant: the status filter also admits cancelled bookings
bookedRoomCount_CountsCancelled(roomTypeId, checkIn, checkOut) ==
  Cardinality({i \in BookingIds :
     /\ bookings[i].room_type_id = roomTypeId
     /\ bookings[i].check_in_date < toISODate(checkOut)
     /\ bookings[i].check_out_date > toISODate(checkIn)
     /\ bookings[i].status \in {"confirmed", "checked_in", "cancelled"}})

\* SELECT count(*) FROM bookings WHERE room_type_id = ? AND check_in_date < checkOutStr
\*   AND check_out_date > checkInStr AND status IN ('confirmed', 'checked_in')
bookedRoomCount(roomTypeId, checkIn, checkOut) ==
  Cardinality({i \in BookingIds :
     /\ bookings[i].room_type_id = roomTypeId
     /\ bookings[i].check_in_date < toISODate(checkOut)
     /\ bookings[i].check_out_date > toISODate(checkIn)
     /\ bookings[i].status \in {"confirmed", "checked_in"}})

checkRoomAvailability(roomTypeId, checkIn, checkOut) ==
  IF totalRoomCount(roomTypeId) = 0 THEN FALSE
  ELSE totalRoomCount(roomTypeId) > bookedRoomCount(roomTypeId, checkIn, checkOut)

\* ---------------------------------------------------------- bookings.ts
\* createBooking's conflict query (closed-interval comparisons on DATE columns)
conflictingBookings(input) ==
  LET checkInStr == toISODate(input.check_in_date)
      checkOutStr == toISODate(input.check_out_date)
  IN {i \in BookingIds :
        /\ bookings[i].room_type_id = input.room_type_id
        /\ bookings[i].status # "cancelled"
        /\ \/ /\ bookings[i].check_in_date <= checkInStr
              /\ bookings[i].check_out_date >= checkInStr
           \/ /\ bookings[i].check_in_date <= checkOutStr
              /\ bookings[i].check_out_date >= checkOutStr
           \/ /\ bookings[i].check_in_date >= checkInStr
              /\ bookings[i].check_out_date <= checkOutStr}

availableRooms(roomTypeId) ==
  {r \in RoomIds : rooms[r].room_type_id = roomTypeId /\ rooms[r].is_available}

\* variant: the capacity check compares with > where the handler has >=
createBookingError_OffByOne(input) ==
  IF input.user_id \notin users THEN "UserNotFound"
  ELSE IF \/ input.room_type_id \notin DOMAIN roomTypes
          \/ ~roomTypes[input.room_type_id].is_active THEN "RoomTypeNotFound"
  ELSE IF input.check_in_date >= input.check_out_date THEN "InvalidDateRange"
  ELSE IF /\ ~input.env.test
          /\ toISODate(input.check_in_date) < input.env.today THEN "PastCheckIn"
  ELSE IF input.guests > roomTypes[input.room_type_id].max_occupancy
       THEN "CapacityExceeded"
  ELSE IF Cardinality(conflictingBookings(input))
             > Cardinality(availableRooms(input.room_type_id))
       THEN "NoAvailability"
  ELSE "ok"

\* variant: the room type is looked up without its is_active flag
createBookingError_InactiveAllowed(input) ==
  IF input.user_id \notin users THEN "UserNotFound"
  ELSE IF input.room_type_id \notin DOMAIN roomTypes THEN "RoomTypeNotFound"
  ELSE IF input.check_in_date >= input.check_out_date THEN "InvalidDateRange"
  ELSE IF /\ ~input.env.test
          /\ toISODate(input.check_in_date) < input.env.today THEN "PastCheckIn"
  ELSE IF input.guests > roomTypes[input.room_type_id].max_occupancy
       THEN "CapacityExceeded"
  ELSE IF Cardinality(conflictingBookings(input))
             >= Cardinality(availableRooms(input.room_type_id))
       THEN "NoAvailability"
  ELSE "ok"

\* the outcome of createBooking's checks, in the order the handler makes them
createBookingError(input) ==
  IF input.user_id \notin users THEN "UserNotFound"
  ELSE IF \/ input.room_type_id \notin DOMAIN roomTypes
          \/ ~roomTypes[input.room_type_id].is_active THEN "RoomTypeNotFound"
  ELSE IF input.check_in_date >= input.check_out_date THEN "InvalidDateRange"
  ELSE IF /\ ~input.env.test
          /\ toISODate(input.check_in_date) < input.env.today THEN "PastCheckIn"
  ELSE IF input.guests > roomTypes[input.room_type_id].max_occupancy
       THEN "CapacityExceeded"
  ELSE IF Cardinality(conflictingBookings(input))
             >= Cardinality(availableRooms(input.room_type_id))
       THEN "NoAvailability"
  ELSE "ok"

\* Math.floor(timeDiff / msPerDay)
nights(input) == (input.check_out_date - input.check_in_date) \div TicksPerDay

\* the rooms the assignment loop can stop at: the rows come back in no
\* guaranteed order, so any available room without a conflicting booking
assignableRooms(input) ==
  {r \in availableRooms(input.room_type_id) :
     \A i \in conflictingBookings(input) : bookings[i].room_id # r}

\* variant: the loop gives up at a room that has a conflicting booking
assignedRoomIds_GivesUp(input) ==
  IF assignableRooms(input) = availableRooms(input.room_type_id)
  THEN assignableRooms(input)
  ELSE assignableRooms(input) \cup {NULL}

assignedRoomIds(input) ==
  IF assignableRooms(input) = {} THEN {NULL} ELSE assignableRooms(input)

bookingRow(input, basePrice, assignedRoomId) ==
  [user_id |-> input.user_id,
   room_type_id |-> input.room_type_id,
   room_id |-> assignedRoomId,
   check_in_date |-> toISODate(input.check_in_date),
   check_out_date |-> toISODate(input.check_out_date),
   guests |-> input.guests,
   total_amount |-> nights(input) * basePrice,
   status |-> "pending",
   special_requests |-> input.special_requests]

newBooking(input, assignedRoomId) ==
  bookingRow(input, roomTypes[input.room_type_id].base_price, assignedRoomId)

Envs == {[test |-> TRUE, today |-> 0], [test |-> FALSE, today |-> 1]}

\* special_requests is a nullable text: "null", or one of SpecialRequestTexts
SpecialRequestTexts == {"late arrival"}

\* requests without a special_requests text
CreateBookingInputs ==
  [user_id : UserIdInputs, room_type_id : RoomTypeIdInputs,
   check_in_date : Instants, check_out_date : Instants,
   guests : 1..MaxGuests, env : Envs, special_requests : {"null"}]

\* a handler that throws writes nothing: the step leaves every table as it was
createBooking(input) ==
  /\ IF createBookingError(input) = "ok"
     THEN /\ \E r \in assignedRoomIds(input) :
               bookings' = Append(bookings, newBooking(input, r))
          /\ last' = "createBooking"
     ELSE UNCHANGED <<bookings, last>>
  /\ UNCHANGED <<requests, payments, users, roomTypes, rooms, procs,
               seasonalPricing, promoOffers, reply, clients>>

\* the bookings table is capped at MaxBookings rows
CreateBooking ==
  /\ Len(bookings) < MaxBookings
  /\ \E input \in CreateBookingInputs : createBooking(input)

\* requests of one guest arriving on the first day, with or without a text
CreateBookingTextInputs ==
  [user_id : UserIds, room_type_id : RoomTypeIds,
   check_in_date : {fromISODate(0)}, check_out_date : DateInstants,
   guests : {1}, env : {[test |-> TRUE, today |-> 0]},
   special_requests : {"null"} \cup SpecialRequestTexts]

CreateBookingWithText ==
  /\ Len(bookings) < MaxBookings
  /\ \E input \in CreateBookingTextInputs : createBooking(input)

\* variant: the table lets a confirmed booking go back to pending
validTransitions_Back(currentStatus) ==
  CASE currentStatus = "pending" -> {"confirmed", "cancelled"}
    [] currentStatus = "confirmed" -> {"checked_in", "cancelled", "pending"}
    [] currentStatus = "checked_in" -> {"checked_out"}
    [] currentStatus = "cancelled" -> {}
    [] currentStatus = "completed" -> {}
    [] currentStatus = "checked_out" -> {"completed"}

\* updateBooking's status table
validTransitions(currentStatus) ==
  CASE currentStatus = "pending" -> {"confirmed", "cancelled"}
    [] currentStatus = "confirmed" -> {"checked_in", "cancelled"}
    [] currentStatus = "checked_in" -> {"checked_out"}
    [] currentStatus = "cancelled" -> {}
    [] currentStatus = "completed" -> {}
    [] currentStatus = "checked_out" -> {"completed"}

\* variant: the status check is skipped when the requested status is the current one
updateBookingError_SameStatus(input) ==
  IF input.id \notin BookingIds THEN "BookingNotFound"
  ELSE IF /\ input.room_id # Undefined /\ input.room_id # NULL
          /\ (input.room_id \notin DOMAIN rooms \/ ~rooms[input.room_id].is_available)
       THEN "RoomNotAvailable"
  ELSE IF /\ input.room_id # Undefined /\ input.room_id # NULL
          /\ rooms[input.room_id].room_type_id # bookings[input.id].room_type_id
       THEN "RoomTypeMismatch"
  ELSE IF /\ input.status # "undefined"
          /\ input.status # bookings[input.id].status
          /\ input.status \notin validTransitions(bookings[input.id].status)
       THEN "InvalidStatusTransition"
  ELSE "ok"

\* variant: the reassignment check stops after finding the room, without
\* comparing its room type with the booking's
updateBookingError_NoTypeCheck(input) ==
  IF input.id \notin BookingIds THEN "BookingNotFound"
  ELSE IF /\ input.room_id # Undefined /\ input.room_id # NULL
          /\ (input.room_id \notin DOMAIN rooms \/ ~rooms[input.room_id].is_available)
       THEN "RoomNotAvailable"
  ELSE IF /\ input.status # "undefined"
          /\ input.status \notin validTransitions(bookings[input.id].status)
       THEN "InvalidStatusTransition"
  ELSE "ok"

updateBookingError(input) ==
  IF input.id \notin BookingIds THEN "BookingNotFound"
  ELSE IF /\ input.room_id # Undefined /\ input.room_id # NULL
          /\ (input.room_id \notin DOMAIN rooms \/ ~rooms[input.room_id].is_available)
       THEN "RoomNotAvailable"
  ELSE IF /\ input.room_id # Undefined /\ input.room_id # NULL
          /\ rooms[input.room_id].room_type_id # bookings[input.id].room_type_id
       THEN "RoomTypeMismatch"
  ELSE IF /\ input.status # "undefined"
          /\ input.status \notin validTransitions(bookings[input.id].status)
       THEN "InvalidStatusTransition"
  ELSE "ok"

\* variant: special_requests is written on every update, as null when the
\* request leaves it out
updatedBooking_ClearsRequests(input) ==
  [bookings[input.id] EXCEPT
     !.room_id = IF input.room_id # Undefined THEN input.room_id ELSE @,
     !.status = IF input.status # "undefined" THEN input.status ELSE @,
     !.special_requests = IF input.special_requests # "undefined"
                          THEN input.special_requests ELSE "null"]

\* the row after UPDATE ... SET updateData
updatedBooking(input) ==
  [bookings[input.id] EXCEPT
     !.room_id = IF input.room_id # Undefined THEN input.room_id ELSE @,
     !.status = IF input.status # "undefined" THEN input.status ELSE @,
     !.special_requests = IF input.special_requests # "undefined"
                          THEN input.special_requests ELSE @]

\* requests that leave special_requests out
UpdateBookingInputs ==
  [id : 1..(MaxBookings + 1),
   room_id : {Undefined, NULL} \cup RoomIdInputs,
   status : bookingStatusEnum \cup {"undefined"},
   special_requests : {"undefined"}]

updateBooking(input) ==
  /\ IF updateBookingError(input) = "ok"
     THEN /\ bookings' = [bookings EXCEPT ![input.id] = updatedBooking(input)]
          /\ last' = "updateBooking"
     ELSE UNCHANGED <<bookings, last>>
  /\ UNCHANGED <<requests, payments, users, roomTypes, rooms, procs,
               seasonalPricing, promoOffers, reply, clients>>

UpdateBooking == \E input \in UpdateBookingInputs : updateBooking(input)

\* requests with any of the three optional fields given or left out
UpdateBookingTextInputs ==
  [id : 1..(MaxBookings + 1),
   room_id : {Undefined, NULL} \cup RoomIdInputs,
   status : bookingStatusEnum \cup {"undefined"},
   special_requests : {"undefined", "null"} \cup SpecialRequestTexts]

UpdateBookingWithText ==
  \E input \in UpdateBookingTextInputs : updateBooking(input)

cancellableStatuses == {"pending", "confirmed"}

\* variant: a checked-in booking may be cancelled too
cancelBookingError_CheckedIn(id) ==
  IF id \notin BookingIds THEN "BookingNotFound"
  ELSE IF bookings[id].status \notin (cancellableStatuses \cup {"checked_in"})
       THEN "InvalidStatus"
  ELSE "ok"

cancelBookingError(id) ==
  IF id \notin BookingIds THEN "BookingNotFound"
  ELSE IF bookings[id].status \notin cancellableStatuses THEN "InvalidStatus"
  ELSE "ok"

\* `Cannot cancel booking with status: ${currentStatus}`
cancelBookingMessage(id) ==
  <<"Cannot cancel booking with status: ", bookings[id].status>>

cancelBooking(id) ==
  /\ IF cancelBookingError(id) = "ok"
     THEN /\ bookings' = [bookings EXCEPT ![id].status = "cancelled"]
          /\ last' = "cancelBooking"
     ELSE UNCHANGED <<bookings, last>>
  /\ UNCHANGED <<requests, payments, users, roomTypes, rooms, procs,
               seasonalPricing, promoOffers, reply, clients>>

CancelBooking == \E id \in 1..(MaxBookings + 1) : cancelBooking(id)

\* -------------------------------------------------------- room_types.ts
UpdateRoomTypeInputs ==
  [id : RoomTypeIdInputs,
   max_occupancy : {Undefined} \cup (1..MaxGuests),
   is_active : {"undefined", "true", "false"}]

updateRoomTypeError(input) ==
  IF input.id \notin DOMAIN roomTypes THEN "RoomTypeNotFound" ELSE "ok"

\* the row after UPDATE room_types SET updateData WHERE id = input.id
updatedRoomType(input) ==
  [roomTypes[input.id] EXCEPT
     !.max_occupancy = IF input.max_occupancy # Undefined THEN input.max_occupancy ELSE @,
     !.is_active = IF input.is_active # "undefined" THEN input.is_active = "true" ELSE @]

updateRoomType(input) ==
  /\ IF updateRoomTypeError(input) = "ok"
     THEN /\ roomTypes' = [roomTypes EXCEPT ![input.id] = updatedRoomType(input)]
          /\ last' = "updateRoomType"
     ELSE UNCHANGED <<roomTypes, last>>
  /\ UNCHANGED <<requests, payments, users, rooms, bookings, procs,
               seasonalPricing, promoOffers, reply, clients>>

UpdateRoomType == \E input \in UpdateRoomTypeInputs : updateRoomType(input)

\* variant: the row is removed from the table
deletedRoomTypes_HardDelete(id) ==
  [t \in DOMAIN roomTypes \ {id} |-> roomTypes[t]]

\* the table after UPDATE room_types SET is_active = false WHERE id = ?
deletedRoomTypes(id) ==
  [t \in DOMAIN roomTypes |->
     IF t = id THEN [roomTypes[t] EXCEPT !.is_active = FALSE] ELSE roomTypes[t]]

\* deleteRoomType answers whether a row was updated and never throws
deleteRoomType(id) ==
  /\ roomTypes' = deletedRoomTypes(id)
  /\ reply' = [op |-> "deleteRoomType", result |-> id \in DOMAIN roomTypes]
  /\ last' = IF id \in DOMAIN roomTypes THEN "deleteRoomType" ELSE last
  /\ UNCHANGED <<requests, payments, users, rooms, bookings, procs,
                 seasonalPricing, promoOffers, clients>>

DeleteRoomType == \E id \in RoomTypeIdInputs : deleteRoomType(id)

\* SELECT * FROM room_types WHERE is_active: the ids of the rows returned
getRoomTypes == {t \in DOMAIN roomTypes : roomTypes[t].is_active}

GetRoomTypes ==
  /\ reply' = [op |-> "getRoomTypes", result |-> getRoomTypes]
  /\ UNCHANGED <<requests, payments, users, roomTypes, rooms, bookings, last, procs,
                 seasonalPricing, promoOffers, clients>>

\* --------------------------------------- createBooking, one await at a time
\* Each request runs createBooking up to its next await; between two awaits
\* of one request any other request may run.  The handler opens no
\* transaction, so each query sees the tables as they are when it executes.
Procs == {1, 2}

NoInput ==
  [user_id |-> 0, room_type_id |-> 0, check_in_date |-> 0, check_out_date |-> 0,
   guests |-> 0, env |-> [test |-> TRUE, today |-> 0],
   special_requests |-> "null"]

idle ==
  [pc |-> "idle", input |-> NoInput, base_price |-> 0, conflicts |-> {},
   assignedRoomId |-> NULL, result |-> "none"]

thrown(err) == [idle EXCEPT !.pc = "done", !.result = err]

\* requests of the concurrent clients: calendar dates, sent as UTC midnights
ConcurrentInputs ==
  [user_id : UserIdInputs, room_type_id : RoomTypeIdInputs,
   check_in_date : {fromISODate(d) : d \in Days},
   check_out_date : {fromISODate(d) : d \in Days},
   guests : 1..MaxGuests, env : {[test |-> TRUE, today |-> 0]},
   special_requests : {"null"}]

\* await db.select().from(usersTable)
selectUser(p, input) ==
  /\ procs[p].pc = "idle"
  /\ procs' = [procs EXCEPT ![p] =
       IF input.user_id \notin users THEN thrown("UserNotFound")
       ELSE [idle EXCEPT !.pc = "selectRoomType", !.input = input]]
  /\ UNCHANGED <<requests, payments, users, roomTypes, rooms, bookings, last,
               seasonalPricing, promoOffers, reply, clients>>

\* await db.select().from(roomTypesTable), then the date and guest checks
selectRoomType(p) ==
  /\ procs[p].pc = "selectRoomType"
  /\ LET input == procs[p].input IN
     procs' = [procs EXCEPT ![p] =
       IF \/ input.room_type_id \notin DOMAIN roomTypes
          \/ ~roomTypes[input.room_type_id].is_active THEN thrown("RoomTypeNotFound")
       ELSE IF input.check_in_date >= input.check_out_date
            THEN thrown("InvalidDateRange")
       ELSE IF /\ ~input.env.test
               /\ toISODate(input.check_in_date) < input.env.today
            THEN thrown("PastCheckIn")
       ELSE IF input.guests > roomTypes[input.room_type_id].max_occupancy
            THEN thrown("CapacityExceeded")
       ELSE [@ EXCEPT !.pc = "selectConflicts",
                      !.base_price = roomTypes[input.room_type_id].base_price]]
  /\ UNCHANGED <<requests, payments, users, roomTypes, rooms, bookings, last,
               seasonalPricing, promoOffers, reply, clients>>

\* await db.select().from(bookingsTable): the rows read, with their room_id
selectConflicts(p) ==
  /\ procs[p].pc = "selectConflicts"
  /\ procs' = [procs EXCEPT ![p] =
       [@ EXCEPT !.pc = "selectRooms",
                 !.conflicts = {<<i, bookings[i].room_id>> :
                                  i \in conflictingBookings(procs[p].input)}]]
  /\ UNCHANGED <<requests, payments, users, roomTypes, rooms, bookings, last,
               seasonalPricing, promoOffers, reply, clients>>

\* await db.select().from(roomsTable), the capacity check and the assignment loop
selectRooms(p) ==
  /\ procs[p].pc = "selectRooms"
  /\ LET rows == availableRooms(procs[p].input.room_type_id)
         free == {r \in rows : \A c \in procs[p].conflicts : c[2] # r}
     IN IF Cardinality(procs[p].conflicts) >= Cardinality(rows)
        THEN procs' = [procs EXCEPT ![p] = thrown("NoAvailability")]
        ELSE \E r \in (IF free = {} THEN {NULL} ELSE free) :
               procs' = [procs EXCEPT ![p] =
                 [@ EXCEPT !.pc = "insert", !.assignedRoomId = r]]
  /\ UNCHANGED <<requests, payments, users, roomTypes, rooms, bookings, last,
               seasonalPricing, promoOffers, reply, clients>>

\* await db.insert(bookingsTable)
insertBooking(p) ==
  /\ procs[p].pc = "insert"
  /\ Len(bookings) < MaxBookings
  /\ bookings' = Append(bookings,
       bookingRow(procs[p].input, procs[p].base_price, procs[p].assignedRoomId))
  /\ last' = "createBooking"
  /\ procs' = [procs EXCEPT ![p] = [@ EXCEPT !.pc = "done", !.result = "ok"]]
  /\ UNCHANGED <<requests, payments, users, roomTypes, rooms,
               seasonalPricing, promoOffers, reply, clients>>

SelectUser == \E p \in Procs, input \in ConcurrentInputs : selectUser(p, input)
SelectRoomType == \E p \in Procs : selectRoomType(p)
SelectConflicts == \E p \in Procs : selectConflicts(p)
SelectRooms == \E p \in Procs : selectRooms(p)
InsertBooking == \E p \in Procs : insertBooking(p)

\* ------------------------------------------------------- replies of calls
\* what the last call of a query or pricing / promo handler returned
NoReply == [op |-> "none", result |-> "none"]

\* ------------------------------------------------------ seasonal_pricing.ts
\* price_multiplier is numeric(5,2): kept in hundredths, so 1.5 is 150.  An
\* amount computed with a multiplier is kept in hundredths of the currency unit.
PriceMultipliers == {50, 150}
DefaultMultiplier == 100

\* The seasonal_pricing table is the sequence of its rows in the order a scan
\* returns them.  That order is not fixed by any ORDER BY: an INSERT or UPDATE
\* may leave the written row at any place, a SELECT does not move rows.
placements(table, row) ==
  {[k \in 1..(Len(table) + 1) |->
      IF k < pos THEN table[k] ELSE IF k = pos THEN row ELSE table[k - 1]] :
   pos \in 1..(Len(table) + 1)}

withoutRow(table, pos) ==
  [k \in 1..(Len(table) - 1) |-> IF k < pos THEN table[k] ELSE table[k + 1]]

CreateSeasonalPricingInputs ==
  [room_type_id : RoomTypeIdInputs, price_multiplier : PriceMultipliers,
   start_date : {fromISODate(d) : d \in Days},
   end_date : {fromISODate(d) : d \in Days},
   is_active : {"undefined", "true", "false"}]

createSeasonalPricingError(input) ==
  IF input.room_type_id \notin DOMAIN roomTypes THEN "RoomTypeNotFound" ELSE "ok"

seasonalPricingRow(input) ==
  [id |-> Len(seasonalPricing) + 1,
   room_type_id |-> input.room_type_id,
   price_multiplier |-> input.price_multiplier,
   start_date |-> toISODate(input.start_date),
   end_date |-> toISODate(input.end_date),
   is_active |-> IF input.is_active = "undefined" THEN TRUE
                 ELSE input.is_active = "true"]

createSeasonalPricing(input) ==
  /\ IF createSeasonalPricingError(input) = "ok"
     THEN /\ seasonalPricing' \in placements(seasonalPricing, seasonalPricingRow(input))
          /\ reply' = [op |-> "createSeasonalPricing", result |-> "ok"]
     ELSE /\ UNCHANGED seasonalPricing
          /\ reply' = [op |-> "createSeasonalPricing",
                       result |-> createSeasonalPricingError(input)]
  /\ UNCHANGED <<requests, payments, users, roomTypes, rooms, bookings, last, procs, promoOffers, clients>>

\* the seasonal_pricing table is capped at MaxRules rows
CreateSeasonalPricing ==
  /\ Len(seasonalPricing) < MaxRules
  /\ \E input \in CreateSeasonalPricingInputs : createSeasonalPricing(input)

\* soft delete: UPDATE seasonal_pricing SET is_active = false WHERE id = ?
deleteSeasonalPricing(id) ==
  /\ IF \E pos \in 1..Len(seasonalPricing) : seasonalPricing[pos].id = id
     THEN \E pos \in 1..Len(seasonalPricing) :
            /\ seasonalPricing[pos].id = id
            /\ seasonalPricing' \in
                 placements(withoutRow(seasonalPricing, pos),
                            [seasonalPricing[pos] EXCEPT !.is_active = FALSE])
            /\ reply' = [op |-> "deleteSeasonalPricing", result |-> TRUE]
     ELSE /\ UNCHANGED seasonalPricing
          /\ reply' = [op |-> "deleteSeasonalPricing", result |-> FALSE]
  /\ UNCHANGED <<requests, payments, users, roomTypes, rooms, bookings, last, procs, promoOffers, clients>>

DeleteSeasonalPricing == \E id \in 1..(MaxRules + 1) : deleteSeasonalPricing(id)

\* ---------------------------------------- room_search.ts: calculateRoomPrice
\* variant: the nights are rounded down
ceilNights_Floor(checkIn, checkOut) == (checkOut - checkIn) \div TicksPerDay

\* Math.ceil((checkOut.getTime() - checkIn.getTime()) / msPerDay)
ceilNights(checkIn, checkOut) ==
  (checkOut - checkIn + TicksPerDay - 1) \div TicksPerDay

\* variant: the query leaves the is_active condition out
seasonalRows_WithInactive(roomTypeId, checkIn, checkOut) ==
  SelectSeq(seasonalPricing, LAMBDA pricing :
    /\ pricing.room_type_id = roomTypeId
    /\ pricing.start_date <= toISODate(checkOut)
    /\ pricing.end_date >= toISODate(checkIn))

\* SELECT * FROM seasonal_pricing WHERE room_type_id = ? AND is_active
\*   AND start_date <= checkOutStr AND end_date >= checkInStr
seasonalRows(roomTypeId, checkIn, checkOut) ==
  SelectSeq(seasonalPricing, LAMBDA pricing :
    /\ pricing.room_type_id = roomTypeId
    /\ pricing.is_active
    /\ pricing.start_date <= toISODate(checkOut)
    /\ pricing.end_date >= toISODate(checkIn))

\* for (const pricing of seasonalPricing) { if (in range) { ...; break } }
RECURSIVE dayMultiplier(_, _)
dayMultiplier(rows, day) ==
  IF rows = <<>> THEN DefaultMultiplier
  ELSE IF day >= Head(rows).start_date /\ day <= Head(rows).end_date
       THEN Head(rows).price_multiplier
       ELSE dayMultiplier(Tail(rows), day)

\* variant: the loop also charges the day of checkOut
RECURSIVE dayLoop_ThroughCheckOut(_, _, _, _)
dayLoop_ThroughCheckOut(rows, basePrice, currentDate, checkOut) ==
  IF currentDate <= checkOut
  THEN basePrice * dayMultiplier(rows, toISODate(currentDate))
         + dayLoop_ThroughCheckOut(rows, basePrice, currentDate + TicksPerDay, checkOut)
  ELSE 0

\* while (currentDate < checkOut) { totalPrice += ...; currentDate.setDate(+1) }
RECURSIVE dayLoop(_, _, _, _)
dayLoop(rows, basePrice, currentDate, checkOut) ==
  IF currentDate < checkOut
  THEN basePrice * dayMultiplier(rows, toISODate(currentDate))
         + dayLoop(rows, basePrice, currentDate + TicksPerDay, checkOut)
  ELSE 0

calculateRoomPrice(roomTypeId, checkIn, checkOut) ==
  IF roomTypeId \notin DOMAIN roomTypes
  THEN [error |-> "RoomTypeNotFound", price |-> 0]
  ELSE IF ceilNights(checkIn, checkOut) <= 0
  THEN [error |-> "InvalidDateRange", price |-> 0]
  ELSE LET basePrice == roomTypes[roomTypeId].base_price
           rows == seasonalRows(roomTypeId, checkIn, checkOut)
       IN IF Len(rows) > 0
          THEN [error |-> "ok", price |-> dayLoop(rows, basePrice, checkIn, checkOut)]
          ELSE [error |-> "ok",
                price |-> basePrice * ceilNights(checkIn, checkOut) * DefaultMultiplier]

\* a query: it answers and writes nothing
calculateRoomPriceCall(roomTypeId, checkIn, checkOut) ==
  /\ reply' = [op |-> "calculateRoomPrice",
               result |-> calculateRoomPrice(roomTypeId, checkIn, checkOut)]
  /\ UNCHANGED <<requests, payments, users, roomTypes, rooms, bookings, last, procs,
                 seasonalPricing, promoOffers, clients>>

\* the quotes asked for: calendar dates, sent as UTC midnights
CalculateRoomPrice ==
  \E roomTypeId \in RoomTypeIdInputs, checkIn \in DateInstants, checkOut \in DateInstants :
    calculateRoomPriceCall(roomTypeId, checkIn, checkOut)

\* ---------------------------------------------------------- promo_offers.ts
\* The promo_offers table is the sequence of its rows, a row's id its place.
\* Amounts are whole currency units; the inputs are chosen so that every
\* percentage of an amount is whole, as the handler's floating-point
\* arithmetic is exact on them.
PromoCodes == {"SUMMER20", "FLAT30"}
BookingAmounts == {50, 200, 500}

PromoOfferIds == 1..Len(promoOffers)

CreatePromoOfferInputs ==
  [code : PromoCodes,
   discount_type : {"percentage", "fixed"},
   discount_value : {20, 60},
   min_booking_amount : {NULL, 100},
   max_discount : {NULL, 50},
   valid_from : {fromISODate(0), fromISODate(1)},
   valid_until : {fromISODate(1)},
   usage_limit : {NULL, 1},
   is_active : {"undefined", "false"}]

\* code is UNIQUE: the INSERT of a code already there fails
createPromoOfferError(input) ==
  IF \E id \in PromoOfferIds : promoOffers[id].code = input.code
  THEN "DuplicateCode" ELSE "ok"

promoOfferRow(input) ==
  [code |-> input.code,
   discount_type |-> input.discount_type,
   discount_value |-> input.discount_value,
   min_booking_amount |-> input.min_booking_amount,
   max_discount |-> input.max_discount,
   valid_from |-> toISODate(input.valid_from),
   valid_until |-> toISODate(input.valid_until),
   usage_limit |-> input.usage_limit,
   used_count |-> 0,
   is_active |-> IF input.is_active = "undefined" THEN TRUE
                 ELSE input.is_active = "true"]

createPromoOffer(input) ==
  /\ IF createPromoOfferError(input) = "ok"
     THEN /\ promoOffers' = Append(promoOffers, promoOfferRow(input))
          /\ reply' = [op |-> "createPromoOffer", result |-> "ok"]
     ELSE /\ UNCHANGED promoOffers
          /\ reply' = [op |-> "createPromoOffer", result |-> createPromoOfferError(input)]
  /\ UNCHANGED <<requests, payments, users, roomTypes, rooms, bookings, last, procs,
                 seasonalPricing, clients>>

\* the promo_offers table is capped at MaxOffers rows
CreatePromoOffer ==
  /\ Len(promoOffers) < MaxOffers
  /\ \E input \in CreatePromoOfferInputs : createPromoOffer(input)

\* SELECT * FROM promo_offers WHERE code = ?: the id of the row, or NULL
getPromoOfferByCode(code) ==
  IF \E id \in PromoOfferIds : promoOffers[id].code = code
  THEN CHOOSE id \in PromoOfferIds : promoOffers[id].code = code
  ELSE NULL

\* today is new Date().toISOString().split('T')[0], compared with the DATE
\* columns: the ids of the rows returned
getActivePromoOffers(today) ==
  {id \in PromoOfferIds :
     /\ promoOffers[id].is_active
     /\ promoOffers[id].valid_from <= toISODate(today)
     /\ promoOffers[id].valid_until >= toISODate(today)}

GetActivePromoOffers ==
  \E today \in Instants :
    /\ reply' = [op |-> "getActivePromoOffers", result |-> getActivePromoOffers(today)]
    /\ UNCHANGED <<requests, payments, users, roomTypes, rooms, bookings, last, procs,
                   seasonalPricing, promoOffers, clients>>

UpdatePromoOfferInputs ==
  [id : 1..(MaxOffers + 1),
   usage_limit : {Undefined, NULL, 1},
   is_active : {"undefined", "true", "false"}]

\* result[0] of an UPDATE that matched no row is undefined: reading its
\* discount_value throws a TypeError
updatePromoOfferError(input) ==
  IF input.id \notin PromoOfferIds THEN "TypeError" ELSE "ok"

updatedPromoOffer(input) ==
  [promoOffers[input.id] EXCEPT
     !.usage_limit = IF input.usage_limit # Undefined THEN input.usage_limit ELSE @,
     !.is_active = IF input.is_active # "undefined" THEN input.is_active = "true" ELSE @]

updatePromoOffer(input) ==
  /\ IF updatePromoOfferError(input) = "ok"
     THEN promoOffers' = [promoOffers EXCEPT ![input.id] = updatedPromoOffer(input)]
     ELSE UNCHANGED promoOffers
  /\ reply' = [op |-> "updatePromoOffer", result |-> updatePromoOfferError(input)]
  /\ UNCHANGED <<requests, payments, users, roomTypes, rooms, bookings, last, procs,
                 seasonalPricing, clients>>

UpdatePromoOffer == \E input \in UpdatePromoOfferInputs : updatePromoOffer(input)

invalidPromo(offerId) == [valid |-> FALSE, discount |-> 0, offer |-> offerId]

\* variant: the discount is returned without the max_discount limit
promoDiscount_Unclamped(offer, bookingAmount) ==
  IF offer.discount_type = "percentage"
  THEN (bookingAmount * offer.discount_value) \div 100
  ELSE offer.discount_value

\* the discount of a valid code, with the max_discount limit applied
promoDiscount(offer, bookingAmount) ==
  LET discount == IF offer.discount_type = "percentage"
                  THEN (bookingAmount * offer.discount_value) \div 100
                  ELSE offer.discount_value
  IN IF offer.max_discount # NULL /\ discount > offer.max_discount
     THEN offer.max_discount ELSE discount

\* today is new Date(), an instant; valid_from and valid_until come back from
\* getPromoOfferByCode as new Date('YYYY-MM-DD'), the UTC midnights of their days
validatePromoCode(code, bookingAmount, today) ==
  LET offerId == getPromoOfferByCode(code) IN
  IF offerId = NULL THEN invalidPromo(NULL)
  ELSE LET offer == promoOffers[offerId] IN
    IF ~offer.is_active THEN invalidPromo(offerId)
    ELSE IF \/ today < fromISODate(offer.valid_from)
            \/ today > fromISODate(offer.valid_until) THEN invalidPromo(offerId)
    ELSE IF offer.usage_limit # NULL /\ offer.used_count >= offer.usage_limit
         THEN invalidPromo(offerId)
    ELSE IF /\ offer.min_booking_amount # NULL
            /\ bookingAmount < offer.min_booking_amount THEN invalidPromo(offerId)
    ELSE [valid |-> TRUE, discount |-> promoDiscount(offer, bookingAmount),
          offer |-> offerId]

\* variant: validating a code counts as a use of it
validatePromoCodeWrites_Counting(code) ==
  promoOffers' = [id \in PromoOfferIds |->
     IF promoOffers[id].code = code
     THEN [promoOffers[id] EXCEPT !.used_count = @ + 1] ELSE promoOffers[id]]

\* validatePromoCode issues one SELECT and no write
validatePromoCodeWrites(code) == UNCHANGED promoOffers

validatePromoCodeCall(code, bookingAmount, today) ==
  /\ reply' = [op |-> "validatePromoCode",
               result |-> validatePromoCode(code, bookingAmount, today)]
  /\ validatePromoCodeWrites(code)
  /\ UNCHANGED <<requests, payments, users, roomTypes, rooms, bookings, last, procs, seasonalPricing>>

ValidatePromoCode ==
  \E code \in PromoCodes, bookingAmount \in BookingAmounts, today \in Instants :
    validatePromoCodeCall(code, bookingAmount, today) /\ UNCHANGED clients

\* variant: the new count is written from a constant, not from the row
usedCountAfterUse_Overwrite(offer) == 1

\* SET used_count = used_count + 1, evaluated by the database on the row
usedCountAfterUse(offer) == offer.used_count + 1

\* an UPDATE that matches no row changes nothing, and result[0] is undefined
usePromoCodeError(code) ==
  IF getPromoOfferByCode(code) = NULL THEN "TypeError" ELSE "ok"

usePromoCodeCall(code) ==
  /\ promoOffers' = [id \in PromoOfferIds |->
       IF promoOffers[id].code = code
       THEN [promoOffers[id] EXCEPT !.used_count = usedCountAfterUse(promoOffers[id])]
       ELSE promoOffers[id]]
  /\ reply' = [op |-> "usePromoCode", result |-> usePromoCodeError(code)]
  /\ UNCHANGED <<requests, payments, users, roomTypes, rooms, bookings, last, procs, seasonalPricing>>

\* used_count is capped at MaxUses
UsePromoCode ==
  \E code \in PromoCodes :
    /\ \A id \in PromoOfferIds : promoOffers[id].used_count < MaxUses
    /\ usePromoCodeCall(code)
    /\ UNCHANGED clients

\* ------------------------------------------------- clients of the promo API
\* A client validates a code and then redeems it with usePromoCode.  Each
\* handler issues one SQL statement, so a call is one step and the calls of
\* different clients interleave in any order.
Clients == {1, 2, 3}

idleClient == [pc |-> "idle", code |-> "none", valid |-> FALSE]

ClientValidate ==
  \E c \in Clients, code \in PromoCodes, bookingAmount \in BookingAmounts,
     today \in Instants :
    /\ clients[c].pc \in {"idle", "validated"}
    /\ validatePromoCodeCall(code, bookingAmount, today)
    /\ clients' = [clients EXCEPT ![c] =
         [pc |-> "validated", code |-> code,
          valid |-> validatePromoCode(code, bookingAmount, today).valid]]

\* a client calls usePromoCode, whatever it validated before
ClientUse ==
  \E c \in Clients, code \in PromoCodes :
    /\ clients[c].pc \in {"idle", "validated"}
    /\ usePromoCodeCall(code)
    /\ clients' = [clients EXCEPT ![c] =
         [pc |-> IF usePromoCodeError(code) = "ok" THEN "used" ELSE "failed",
          code |-> code, valid |-> clients[c].valid /\ clients[c].code = code]]

\* a client calls usePromoCode once, for the code its own validation accepted
ClientRedeem ==
  \E c \in Clients :
    /\ clients[c].pc = "validated"
    /\ clients[c].valid
    /\ usePromoCodeCall(clients[c].code)
    /\ clients' = [clients EXCEPT ![c] =
         [@ EXCEPT !.pc = IF usePromoCodeError(clients[c].code) = "ok"
                          THEN "used" ELSE "failed"]]

\* ------------------------------------------------ room_search.ts as queries
\* searches carry calendar dates, sent as UTC midnights
roomTypeEnum == {"deluxe", "superior", "junior_suite"}

\* searches without a room_type filter
SearchRoomsInputs ==
  [check_in_date : DateInstants, check_out_date : DateInstants,
   guests : 1..MaxGuests, room_type : {"undefined"}]

\* searches with or without a room_type filter
SearchRoomsTypeInputs ==
  [check_in_date : DateInstants, check_out_date : DateInstants,
   guests : 1..MaxGuests, room_type : roomTypeEnum \cup {"undefined"}]

\* variant: the query leaves the is_active condition out
searchAvailableRooms_WithInactive(input) ==
  {t \in DOMAIN roomTypes :
     /\ roomTypes[t].max_occupancy >= input.guests
     /\ input.room_type # "undefined" => roomTypes[t].type = input.room_type
     /\ checkRoomAvailability(t, input.check_in_date, input.check_out_date)}

\* the ids of the room types searchAvailableRooms returns
searchAvailableRooms(input) ==
  {t \in DOMAIN roomTypes :
     /\ roomTypes[t].max_occupancy >= input.guests
     /\ input.room_type # "undefined" => roomTypes[t].type = input.room_type
     /\ roomTypes[t].is_active
     /\ checkRoomAvailability(t, input.check_in_date, input.check_out_date)}

searchAvailableRoomsCall(input) ==
  /\ reply' = [op |-> "searchAvailableRooms", result |-> searchAvailableRooms(input)]
  /\ UNCHANGED <<requests, payments, users, roomTypes, rooms, bookings, last, procs,
                 seasonalPricing, promoOffers, clients>>

SearchAvailableRooms == \E input \in SearchRoomsInputs : searchAvailableRoomsCall(input)

SearchAvailableRoomsByType ==
  \E input \in SearchRoomsTypeInputs : searchAvailableRoomsCall(input)

checkRoomAvailabilityCall(roomTypeId, checkIn, checkOut) ==
  /\ reply' = [op |-> "checkRoomAvailability",
               result |-> checkRoomAvailability(roomTypeId, checkIn, checkOut)]
  /\ UNCHANGED <<requests, payments, users, roomTypes, rooms, bookings, last, procs,
                 seasonalPricing, promoOffers, clients>>

CheckRoomAvailability ==
  \E roomTypeId \in RoomTypeIdInputs, checkIn \in DateInstants, checkOut \in DateInstants :
    checkRoomAvailabilityCall(roomTypeId, checkIn, checkOut)

\* ------------------------------------------- bookings.ts, statement by statement
\* updateBooking and cancelBooking as the requests of concurrent callers run
\* them: every awaited query is a step of its own, the code between two
\* awaits runs with the step of the query before it, and nothing encloses the
\* statements of one handler in a transaction.
Requesters == {1, 2}

NoUpdateInput ==
  [id |-> 0, room_id |-> Undefined, status |-> "undefined",
   special_requests |-> "undefined"]

idleRequest ==
  [pc |-> "idle", op |-> "none", input |-> NoUpdateInput,
   existing |-> [status |-> "none", room_type_id |-> 0], result |-> "none"]

finished(request, err) == [request EXCEPT !.pc = "done", !.result = err]

\* the requests racing for one booking: another room of its type or a room of
\* another type, any status
RacingUpdateInputs ==
  [id : 1..(MaxBookings + 1), room_id : {Undefined, 2, 3},
   status : bookingStatusEnum \cup {"undefined"},
   special_requests : {"undefined"}]

\* if (!validTransitions[currentStatus]?.includes(input.status)) throw
statusRejected(input, currentStatus) ==
  /\ input.status # "undefined"
  /\ input.status \notin validTransitions(currentStatus)

\* const existing = await db.select().from(bookingsTable).where(id = input.id)
selectExisting(p, input) ==
  /\ requests[p].pc = "idle"
  /\ LET started == [requests[p] EXCEPT !.op = "updateBooking", !.input = input]
     IN IF input.id \notin BookingIds
        THEN requests' = [requests EXCEPT ![p] = finished(started, "BookingNotFound")]
        ELSE LET read == [started EXCEPT
                            !.existing = [status |-> bookings[input.id].status,
                                          room_type_id |-> bookings[input.id].room_type_id]]
             IN IF input.room_id # Undefined /\ input.room_id # NULL
                THEN requests' = [requests EXCEPT ![p] = [read EXCEPT !.pc = "selectRoom"]]
                ELSE IF statusRejected(input, read.existing.status)
                THEN requests' = [requests EXCEPT
                                    ![p] = finished(read, "InvalidStatusTransition")]
                ELSE requests' = [requests EXCEPT ![p] = [read EXCEPT !.pc = "update"]]
  /\ UNCHANGED <<payments, users, roomTypes, rooms, bookings, last, procs,
                 seasonalPricing, promoOffers, reply, clients>>

\* variant: the room is written to the booking as soon as the room check
\* passes, before the status is validated
selectRoom_WritesRoom(p) ==
  /\ requests[p].pc = "selectRoom"
  /\ LET request == requests[p]
         roomId == request.input.room_id
     IN IF roomId \notin DOMAIN rooms \/ ~rooms[roomId].is_available
        THEN /\ requests' = [requests EXCEPT ![p] = finished(request, "RoomNotAvailable")]
             /\ UNCHANGED bookings
        ELSE IF rooms[roomId].room_type_id # request.existing.room_type_id
        THEN /\ requests' = [requests EXCEPT ![p] = finished(request, "RoomTypeMismatch")]
             /\ UNCHANGED bookings
        ELSE /\ bookings' = [bookings EXCEPT ![request.input.id].room_id = roomId]
             /\ IF statusRejected(request.input, request.existing.status)
                THEN requests' = [requests EXCEPT
                                    ![p] = finished(request, "InvalidStatusTransition")]
                ELSE requests' = [requests EXCEPT ![p] = [request EXCEPT !.pc = "update"]]
  /\ UNCHANGED <<payments, users, roomTypes, rooms, last, procs,
                 seasonalPricing, promoOffers, reply, clients>>

\* const room = await db.select().from(roomsTable).where(id = input.room_id, is_available)
selectRoom(p) ==
  /\ requests[p].pc = "selectRoom"
  /\ LET request == requests[p]
         roomId == request.input.room_id
     IN IF roomId \notin DOMAIN rooms \/ ~rooms[roomId].is_available
        THEN requests' = [requests EXCEPT ![p] = finished(request, "RoomNotAvailable")]
        ELSE IF rooms[roomId].room_type_id # request.existing.room_type_id
        THEN requests' = [requests EXCEPT ![p] = finished(request, "RoomTypeMismatch")]
        ELSE IF statusRejected(request.input, request.existing.status)
        THEN requests' = [requests EXCEPT
                            ![p] = finished(request, "InvalidStatusTransition")]
        ELSE requests' = [requests EXCEPT ![p] = [request EXCEPT !.pc = "update"]]
  /\ UNCHANGED <<payments, users, roomTypes, rooms, bookings, last, procs,
                 seasonalPricing, promoOffers, reply, clients>>

\* await db.update(bookingsTable).set(updateData).where(id = input.id)
updateRow(p) ==
  /\ requests[p].pc = "update"
  /\ bookings' = [bookings EXCEPT
                    ![requests[p].input.id] = updatedBooking(requests[p].input)]
  /\ last' = "updateBooking"
  /\ requests' = [requests EXCEPT ![p] = finished(requests[p], "ok")]
  /\ UNCHANGED <<payments, users, roomTypes, rooms, procs,
                 seasonalPricing, promoOffers, reply, clients>>

\* cancelBooking: const existing = await db.select()...; the status check
selectForCancel(p, id) ==
  /\ requests[p].pc = "idle"
  /\ LET started == [requests[p] EXCEPT !.op = "cancelBooking",
                                        !.input = [NoUpdateInput EXCEPT !.id = id]]
     IN IF id \notin BookingIds
        THEN requests' = [requests EXCEPT ![p] = finished(started, "BookingNotFound")]
        ELSE IF bookings[id].status \notin cancellableStatuses
        THEN requests' = [requests EXCEPT ![p] = finished(started, "InvalidStatus")]
        ELSE requests' = [requests EXCEPT ![p] =
               [started EXCEPT !.pc = "cancel",
                               !.existing = [status |-> bookings[id].status,
                                             room_type_id |-> bookings[id].room_type_id]]]
  /\ UNCHANGED <<payments, users, roomTypes, rooms, bookings, last, procs,
                 seasonalPricing, promoOffers, reply, clients>>

\* await db.update(bookingsTable).set({ status: 'cancelled' }).where(id = id)
cancelRow(p) ==
  /\ requests[p].pc = "cancel"
  /\ bookings' = [bookings EXCEPT ![requests[p].input.id].status = "cancelled"]
  /\ last' = "cancelBooking"
  /\ requests' = [requests EXCEPT ![p] = finished(requests[p], "ok")]
  /\ UNCHANGED <<payments, users, roomTypes, rooms, procs,
                 seasonalPricing, promoOffers, reply, clients>>

SelectExisting ==
  \E p \in Requesters, input \in RacingUpdateInputs : selectExisting(p, input)
SelectRoom == \E p \in Requesters : selectRoom(p)
UpdateRow == \E p \in Requesters : updateRow(p)
SelectForCancel ==
  \E p \in Requesters, id \in 1..(MaxBookings + 1) : selectForCancel(p, id)
CancelRow == \E p \in Requesters : cancelRow(p)

\* -------------------------------------------------------------- payments.ts
\* The payments table is the sequence of its rows, a row's id its place.
\* Amounts are whole currency units. A transaction id is "null", the id a
\* gateway gave ("txn_original_123") or the refund's id, `refund_${Date.now()}`,
\* kept as its prefix "refund_".
paymentStatusEnum == {"pending", "completed", "failed", "refunded"}
PaymentAmounts == {100, 200}
RefundAmounts == {-100, 0, 50, 100, 150, 200, 300}

PaymentIds == 1..Len(payments)

CreatePaymentInputs ==
  [booking_id : 1..(MaxBookings + 1), amount : PaymentAmounts]

createPaymentError(input) ==
  IF input.booking_id \notin BookingIds THEN "BookingNotFound" ELSE "ok"

paymentRow(input) ==
  [booking_id |-> input.booking_id,
   amount |-> input.amount,
   payment_status |-> "pending",
   transaction_id |-> "null"]

createPayment(input) ==
  /\ IF createPaymentError(input) = "ok"
     THEN payments' = Append(payments, paymentRow(input))
     ELSE UNCHANGED payments
  /\ reply' = [op |-> "createPayment", result |-> createPaymentError(input)]
  /\ UNCHANGED <<requests, users, roomTypes, rooms, bookings, last, procs,
                 seasonalPricing, promoOffers, clients>>

\* the payments table is capped at MaxPayments rows
CreatePayment ==
  /\ Len(payments) < MaxPayments
  /\ \E input \in CreatePaymentInputs : createPayment(input)

\* getPaymentById: the row's id, or NULL
getPaymentById(id) == IF id \in PaymentIds THEN id ELSE NULL

UpdatePaymentInputs ==
  [id : 1..(MaxPayments + 1), payment_status : paymentStatusEnum,
   transaction_id : {"undefined", "null", "txn_original_123"}]

updatePaymentError(input) ==
  IF getPaymentById(input.id) = NULL THEN "PaymentNotFound" ELSE "ok"

updatedPayment(input) ==
  [payments[input.id] EXCEPT
     !.payment_status = input.payment_status,
     !.transaction_id = IF input.transaction_id # "undefined"
                        THEN input.transaction_id ELSE @]

updatePayment(input) ==
  /\ IF updatePaymentError(input) = "ok"
     THEN payments' = [payments EXCEPT ![input.id] = updatedPayment(input)]
     ELSE UNCHANGED payments
  /\ reply' = [op |-> "updatePayment", result |-> updatePaymentError(input)]
  /\ UNCHANGED <<requests, users, roomTypes, rooms, bookings, last, procs,
                 seasonalPricing, promoOffers, clients>>

UpdatePayment == \E input \in UpdatePaymentInputs : updatePayment(input)

\* variant: a refund of zero is let through
processRefundError_ZeroAllowed(paymentId, amount) ==
  IF getPaymentById(paymentId) = NULL THEN "PaymentNotFound"
  ELSE IF amount > payments[paymentId].amount THEN "RefundExceedsPayment"
  ELSE IF amount < 0 THEN "RefundNotPositive"
  ELSE "ok"

processRefundError(paymentId, amount) ==
  IF getPaymentById(paymentId) = NULL THEN "PaymentNotFound"
  ELSE IF amount > payments[paymentId].amount THEN "RefundExceedsPayment"
  ELSE IF amount <= 0 THEN "RefundNotPositive"
  ELSE "ok"

\* the row after UPDATE payments SET payment_status = 'refunded', transaction_id = ...
refundedPayment(paymentId) ==
  [payments[paymentId] EXCEPT
     !.payment_status = "refunded", !.transaction_id = "refund_"]

processRefund(paymentId, amount) ==
  /\ IF processRefundError(paymentId, amount) = "ok"
     THEN payments' = [payments EXCEPT ![paymentId] = refundedPayment(paymentId)]
     ELSE UNCHANGED payments
  /\ reply' = [op |-> "processRefund", result |-> processRefundError(paymentId, amount)]
  /\ UNCHANGED <<requests, users, roomTypes, rooms, bookings, last, procs,
                 seasonalPricing, promoOffers, clients>>

ProcessRefund ==
  \E paymentId \in 1..(MaxPayments + 1), amount \in RefundAmounts :
    processRefund(paymentId, amount)

\* ------------------------------------------------------------- behaviour
Init ==
  /\ users = UserIds
  /\ roomTypes = [t \in RoomTypeIds |->
       [is_active |-> TRUE,
        max_occupancy |-> 1,
        base_price |-> IF t = 1 THEN 100 ELSE 150,
        type |-> IF t = 1 THEN "deluxe" ELSE "superior"]]
  /\ \E a3 \in BOOLEAN :
       rooms = [r \in RoomIds |->
         [room_type_id |-> IF r = 3 THEN 2 ELSE 1,
          is_available |-> IF r = 3 THEN a3 ELSE TRUE]]
  /\ bookings = <<>>
  /\ last = "none"
  /\ procs = [p \in Procs |-> idle]
  /\ seasonalPricing = <<>>
  /\ promoOffers = <<>>
  /\ reply = NoReply
  /\ clients = [c \in Clients |-> idleClient]
  /\ payments = <<>>
  /\ requests = [p \in Requesters |-> idleRequest]

Next ==
  \/ CreateBooking
  \/ UpdateBooking
  \/ CancelBooking

Spec == Init /\ [][Next]_vars

NextAdmin ==
  \/ CreateBooking
  \/ CancelBooking
  \/ UpdateRoomType

SpecAdmin == Init /\ [][NextAdmin]_vars

\* createBooking against room types an administrator keeps editing
NextCreate ==
  \/ CreateBooking
  \/ UpdateRoomType

SpecCreate == Init /\ [][NextCreate]_vars

\* bookings with special requests, updated and cancelled
NextUpdate ==
  \/ CreateBookingWithText
  \/ UpdateBookingWithText
  \/ CancelBooking

SpecUpdate == Init /\ [][NextUpdate]_vars

\* the same, with guests who keep booking while the table has room
SpecUpdateFair == SpecUpdate /\ WF_vars(CreateBookingWithText)

\* room types soft-deleted and reactivated while guests book and cancel
NextDelete ==
  \/ CreateBookingWithText
  \/ CancelBooking
  \/ DeleteRoomType
  \/ UpdateRoomType
  \/ GetRoomTypes

SpecDelete == Init /\ [][NextDelete]_vars

NextConcurrent ==
  \/ SelectUser
  \/ SelectRoomType
  \/ SelectConflicts
  \/ SelectRooms
  \/ InsertBooking

SpecConcurrent == Init /\ [][NextConcurrent]_vars

\* seasonal rules being created and retired while prices are quoted
NextPricing ==
  \/ CreateSeasonalPricing
  \/ DeleteSeasonalPricing
  \/ CalculateRoomPrice

SpecPricing == Init /\ [][NextPricing]_vars

\* the promo handlers, one call at a time
NextPromo ==
  \/ GetActivePromoOffers
  \/ CreatePromoOffer
  \/ UpdatePromoOffer
  \/ ValidatePromoCode
  \/ UsePromoCode

SpecPromo == Init /\ [][NextPromo]_vars

\* offers as createPromoOffer stores them, before any use
SeedOfferInputs ==
  [code : {"SUMMER20"}, discount_type : {"percentage"}, discount_value : {20},
   min_booking_amount : {NULL}, max_discount : {NULL},
   valid_from : {fromISODate(0)}, valid_until : {fromISODate(MaxDay)},
   usage_limit : {NULL, 1, 2}, is_active : {"undefined"}]

FlatOfferInput ==
  [code |-> "FLAT30", discount_type |-> "fixed", discount_value |-> 30,
   min_booking_amount |-> NULL, max_discount |-> NULL,
   valid_from |-> fromISODate(0), valid_until |-> fromISODate(MaxDay),
   usage_limit |-> NULL, is_active |-> "undefined"]

InitPromoClients ==
  /\ users = UserIds
  /\ roomTypes = [t \in RoomTypeIds |->
       [is_active |-> TRUE, max_occupancy |-> 1,
        base_price |-> IF t = 1 THEN 100 ELSE 150,
        type |-> IF t = 1 THEN "deluxe" ELSE "superior"]]
  /\ rooms = [r \in RoomIds |->
       [room_type_id |-> IF r = 3 THEN 2 ELSE 1, is_available |-> TRUE]]
  /\ bookings = <<>>
  /\ last = "none"
  /\ procs = [p \in Procs |-> idle]
  /\ seasonalPricing = <<>>
  /\ \E input \in SeedOfferInputs :
       promoOffers = <<promoOfferRow(input), promoOfferRow(FlatOfferInput)>>
  /\ reply = NoReply
  /\ clients = [c \in Clients |-> idleClient]
  /\ payments = <<>>
  /\ requests = [p \in Requesters |-> idleRequest]

\* clients calling validatePromoCode and usePromoCode in any order, beside
\* an administrator editing the offers
NextPromoConcurrent ==
  \/ UpdatePromoOffer
  \/ ClientValidate
  \/ ClientUse

SpecPromoConcurrent == InitPromoClients /\ [][NextPromoConcurrent]_vars

\* clients that redeem a code once, after their own validation accepted it
NextPromoClients ==
  \/ ClientValidate
  \/ ClientRedeem

SpecPromoClients == InitPromoClients /\ [][NextPromoClients]_vars

\* tables as earlier calls have left them: a confirmed booking as createBooking
\* and updateBooking store it, a seasonal rule as createSeasonalPricing stores it
SeedBookingInput ==
  [user_id |-> 1, room_type_id |-> 1, check_in_date |-> fromISODate(0),
   check_out_date |-> fromISODate(1), guests |-> 1,
   env |-> [test |-> TRUE, today |-> 0], special_requests |-> "null"]

SeedBooking == [bookingRow(SeedBookingInput, 100, 1) EXCEPT !.status = "confirmed"]

SeedRule ==
  [id |-> 1, room_type_id |-> 1, price_multiplier |-> 150,
   start_date |-> 0, end_date |-> 1, is_active |-> TRUE]

InitQueries ==
  /\ users = UserIds
  /\ roomTypes = [t \in RoomTypeIds |->
       [is_active |-> TRUE, max_occupancy |-> 1,
        base_price |-> IF t = 1 THEN 100 ELSE 150,
        type |-> IF t = 1 THEN "deluxe" ELSE "superior"]]
  /\ rooms = [r \in RoomIds |->
       [room_type_id |-> IF r = 3 THEN 2 ELSE 1, is_available |-> TRUE]]
  /\ bookings \in {<<>>, <<SeedBooking>>, <<SeedBooking, SeedBooking>>}
  /\ last = "none"
  /\ procs = [p \in Procs |-> idle]
  /\ seasonalPricing \in {<<>>, <<SeedRule>>}
  /\ \E input \in SeedOfferInputs :
       promoOffers = <<promoOfferRow(input), promoOfferRow(FlatOfferInput)>>
  /\ reply = NoReply
  /\ clients = [c \in Clients |-> idleClient]
  /\ payments = <<>>
  /\ requests = [p \in Requesters |-> idleRequest]

\* the query operations, beside usePromoCode
NextQueries ==
  \/ CalculateRoomPrice
  \/ CheckRoomAvailability
  \/ SearchAvailableRooms
  \/ ValidatePromoCode
  \/ UsePromoCode

SpecQueries == InitQueries /\ [][NextQueries]_vars

\* searches over tables that an administrator and cancelling guests change:
\* up to two confirmed bookings of room type 1, room 3 in or out of service
InitSearch ==
  /\ users = UserIds
  /\ roomTypes = [t \in RoomTypeIds |->
       [is_active |-> TRUE, max_occupancy |-> 1,
        base_price |-> IF t = 1 THEN 100 ELSE 150,
        type |-> IF t = 1 THEN "deluxe" ELSE "superior"]]
  /\ \E a3 \in BOOLEAN :
       rooms = [r \in RoomIds |->
         [room_type_id |-> IF r = 3 THEN 2 ELSE 1,
          is_available |-> IF r = 3 THEN a3 ELSE TRUE]]
  /\ bookings \in {<<>>, <<SeedBooking>>, <<SeedBooking, SeedBooking>>}
  /\ last = "none"
  /\ procs = [p \in Procs |-> idle]
  /\ seasonalPricing = <<>>
  /\ promoOffers = <<>>
  /\ reply = NoReply
  /\ clients = [c \in Clients |-> idleClient]
  /\ payments = <<>>
  /\ requests = [p \in Requesters |-> idleRequest]

NextSearch ==
  \/ UpdateRoomType
  \/ CancelBooking
  \/ SearchAvailableRoomsByType

SpecSearch == InitSearch /\ [][NextSearch]_vars

\* two requests, each an updateBooking or a cancelBooking, racing over the
\* bookings of InitSearch
NextRace ==
  \/ SelectExisting
  \/ SelectRoom
  \/ UpdateRow
  \/ SelectForCancel
  \/ CancelRow

SpecRace == InitSearch /\ [][NextRace]_vars

\* payments taken, settled and refunded for the bookings of InitSearch
NextPayments ==
  \/ CreatePayment
  \/ UpdatePayment
  \/ ProcessRefund

SpecPayments == InitSearch /\ [][NextPayments]_vars

\* callers that await each call before making the next: a call starts when
\* no other call is between two of its statements
noCallRunning ==
  /\ \A p \in Procs : procs[p].pc \in {"idle", "done"}
  /\ \A p \in Requesters : requests[p].pc \in {"idle", "done"}

\* one-night and empty stays from the first day, for known and unknown users
\* and room types, within and above the occupancy
CallCreateInputs ==
  [user_id : UserIdInputs, room_type_id : RoomTypeIdInputs,
   check_in_date : {fromISODate(0)},
   check_out_date : {fromISODate(0), fromISODate(1)},
   guests : 1..MaxGuests, env : {[test |-> TRUE, today |-> 0]},
   special_requests : {"null"}]

\* updates that move the booking to another room, change its status, or both
CallUpdateInputs ==
  [id : 1..(MaxBookings + 1), room_id : {Undefined, 2, 3},
   status : {"undefined", "confirmed", "checked_in"},
   special_requests : {"undefined"}]

CallCreateBooking ==
  /\ noCallRunning
  /\ \E p \in Procs, input \in CallCreateInputs : selectUser(p, input)

CallUpdateBooking ==
  /\ noCallRunning
  /\ \E p \in Requesters, input \in CallUpdateInputs : selectExisting(p, input)

CallCancelBooking ==
  /\ noCallRunning
  /\ \E p \in Requesters, id \in 1..(MaxBookings + 1) : selectForCancel(p, id)

\* createBooking, updateBooking and cancelBooking calls made one after
\* another, each run statement by statement
NextCalls ==
  \/ CallCreateBooking
  \/ SelectRoomType
  \/ SelectConflicts
  \/ SelectRooms
  \/ InsertBooking
  \/ CallUpdateBooking
  \/ SelectRoom
  \/ UpdateRow
  \/ CallCancelBooking
  \/ CancelRow

SpecCalls == Init /\ [][NextCalls]_vars


\* ================================================================ claims
\* vocabulary of the claims
nonCancelled(roomTypeId) ==
  {i \in BookingIds :
     bookings[i].room_type_id = roomTypeId /\ bookings[i].status # "cancelled"}

\* the stay of booking i covers the night of day d
coversNight(i, d) ==
  bookings[i].check_in_date <= d /\ d < bookings[i].check_out_date

\* half-open overlap of booking i with the calendar days of a request
overlapsRequest(i, checkIn, checkOut) ==
  /\ bookings[i].check_in_date < toISODate(checkOut)
  /\ bookings[i].check_out_date > toISODate(checkIn)

\* requests that pass createBooking's user, room-type, date and guest checks
PassingInputs ==
  {input \in CreateBookingInputs :
     createBookingError(input) \in {"ok", "NoAvailability"}}

\* the requests for a room type that differ in their dates only
DateRequests(roomTypeId) ==
  [user_id : {1}, room_type_id : {roomTypeId},
   check_in_date : Instants, check_out_date : Instants,
   guests : {1}, env : {[test |-> TRUE, today |-> 0]},
   special_requests : {"null"}]

\* C1: with exactly one free room of a type, two concurrent createBooking
\* calls for that type with overlapping dates never both succeed.
C1_NoConcurrentDoubleBooking ==
  \A p, q \in Procs :
    (/\ p # q
     /\ procs[p].result = "ok" /\ procs[q].result = "ok"
     /\ procs[p].input.room_type_id = procs[q].input.room_type_id
     /\ procs[p].input.check_in_date < procs[q].input.check_out_date
     /\ procs[q].input.check_in_date < procs[p].input.check_out_date)
    => totalRoomCount(procs[p].input.room_type_id) # 1

\* C2: one call at a time and the rooms fixed, for every room type and every
\* night the non-cancelled bookings covering the night never outnumber the
\* available rooms of the type.
C2_CapacityInvariant ==
  \A t \in RoomTypeIds, d \in Days :
    Cardinality({i \in nonCancelled(t) : coversNight(i, d)}) <= totalRoomCount(t)

C2_Witness ==
  \E t \in RoomTypeIds, d \in Days :
    /\ totalRoomCount(t) = 2
    /\ Cardinality({i \in nonCancelled(t) : coversNight(i, d)}) = 2

\* C3: a booking starts pending; updateBooking changes the status exactly for
\* the six listed pairs and rejects every other pair, the current status
\* included, with InvalidStatusTransition, leaving the status as it was.
AllowedPairs ==
  {<<"pending", "confirmed">>, <<"pending", "cancelled">>,
   <<"confirmed", "checked_in">>, <<"confirmed", "cancelled">>,
   <<"checked_in", "checked_out">>, <<"checked_out", "completed">>}

C3_Table ==
  \A input \in UpdateBookingInputs :
    (/\ input.status # "undefined"
     /\ updateBookingError(input) \notin
          {"BookingNotFound", "RoomNotAvailable", "RoomTypeMismatch"})
    => IF <<bookings[input.id].status, input.status>> \in AllowedPairs
       THEN /\ updateBookingError(input) = "ok"
            /\ updatedBooking(input).status = input.status
       ELSE updateBookingError(input) = "InvalidStatusTransition"

C3_Step ==
  /\ Len(bookings') > Len(bookings) => bookings'[Len(bookings')].status = "pending"
  /\ last' = "updateBooking" =>
       \A i \in BookingIds :
         bookings'[i].status # bookings[i].status =>
           <<bookings[i].status, bookings'[i].status>> \in AllowedPairs

C3_StatusStateMachine == [](C3_Table) /\ [][C3_Step]_vars

C3_Witness ==
  /\ last = "updateBooking"
  /\ \E i \in BookingIds : bookings[i].status = "completed"
  /\ \E i \in BookingIds : bookings[i].status = "cancelled"

\* C4: cancelled and completed are final, and a booking never returns to a
\* status it has left: every change of status moves forward in the order
\* pending, confirmed, checked_in, checked_out, completed, cancelled.
StatusRank(status) ==
  CASE status = "pending" -> 0
    [] status = "confirmed" -> 1
    [] status = "checked_in" -> 2
    [] status = "checked_out" -> 3
    [] status = "completed" -> 4
    [] status = "cancelled" -> 5

C4_Step ==
  \A i \in BookingIds :
    /\ bookings[i].status \in {"cancelled", "completed"}
         => bookings'[i].status = bookings[i].status
    /\ bookings'[i].status # bookings[i].status
         => StatusRank(bookings[i].status) < StatusRank(bookings'[i].status)

C4_TerminalMonotonic == [][C4_Step]_vars

C4_Witness ==
  /\ \E i \in BookingIds : bookings[i].status = "cancelled"
  /\ \E i \in BookingIds : bookings[i].status = "completed"

\* C5: cancelBooking succeeds, setting the status to cancelled, exactly for an
\* existing booking that is pending or confirmed; from any other status it
\* fails with a message naming the status and changes nothing.
C5_Outcome ==
  \A id \in 1..(MaxBookings + 1) :
    /\ cancelBookingError(id) = "ok"
         <=> (id \in BookingIds /\ bookings[id].status \in {"pending", "confirmed"})
    /\ (id \in BookingIds /\ bookings[id].status \notin {"pending", "confirmed"})
         => /\ cancelBookingError(id) = "InvalidStatus"
            /\ cancelBookingMessage(id)[2] = bookings[id].status

C5_Step ==
  (last' = "cancelBooking" /\ bookings' # bookings) =>
    \E id \in BookingIds :
      /\ bookings[id].status \in {"pending", "confirmed"}
      /\ bookings' = [bookings EXCEPT ![id].status = "cancelled"]

C5_CancelBooking == [](C5_Outcome) /\ [][C5_Step]_vars

C5_Witness ==
  /\ last = "cancelBooking"
  /\ \E i \in BookingIds : bookings[i].status = "cancelled"
  /\ \E i \in BookingIds : bookings[i].status = "checked_in"

\* C6: checkRoomAvailability returns N > k, N the available rooms of the type
\* and k its bookings of any status but cancelled that overlap the request
\* (check_in < requested checkOut and check_out > requested checkIn).
C6_AvailabilityCountsNonCancelled ==
  \A t \in RoomTypeIdInputs, checkIn \in Instants, checkOut \in Instants :
    checkRoomAvailability(t, checkIn, checkOut)
      = (totalRoomCount(t) >
           Cardinality({i \in nonCancelled(t) : overlapsRequest(i, checkIn, checkOut)}))

\* C7: for every request that passes the user, room-type, date and guest
\* checks, createBooking fails with NoAvailability exactly when
\* checkRoomAvailability returns false for the same type and dates.
C7_CreateBookingUsesChecker ==
  \A input \in PassingInputs :
    (createBookingError(input) = "NoAvailability")
      <=> ~checkRoomAvailability(input.room_type_id,
                                 input.check_in_date, input.check_out_date)

\* C8: a non-cancelled booking that checks out on the day a request checks in,
\* or checks in on the day the request checks out, is no conflict for
\* createBooking; with one available room the back-to-back request is accepted.
touchesRequest(i, input) ==
  /\ bookings[i].check_in_date < bookings[i].check_out_date
  /\ toISODate(input.check_in_date) < toISODate(input.check_out_date)
  /\ \/ bookings[i].check_out_date = toISODate(input.check_in_date)
     \/ bookings[i].check_in_date = toISODate(input.check_out_date)

C8_SameDayTurnover ==
  \A input \in PassingInputs :
    /\ \A i \in nonCancelled(input.room_type_id) :
         touchesRequest(i, input) => i \notin conflictingBookings(input)
    /\ (/\ totalRoomCount(input.room_type_id) = 1
        /\ \A i \in nonCancelled(input.room_type_id) : touchesRequest(i, input))
       => createBookingError(input) = "ok"

\* C9: once a booking is cancelled, by cancelBooking or by updateBooking,
\* neither checkRoomAvailability nor createBooking counts it; if it was the
\* only booking overlapping a request on a type with one available room, the
\* availability query that returned false before returns true after.
becomesCancelled(i) ==
  bookings[i].status # "cancelled" /\ bookings'[i].status = "cancelled"

C9_Ignored ==
  \A t \in RoomTypeIds :
    \A input \in DateRequests(t) :
      /\ conflictingBookings(input) \subseteq nonCancelled(t)
      /\ bookedRoomCount(t, input.check_in_date, input.check_out_date)
           <= Cardinality({j \in nonCancelled(t) :
                overlapsRequest(j, input.check_in_date, input.check_out_date)})

C9_Step ==
  \A i \in BookingIds :
    becomesCancelled(i) =>
      LET t == bookings[i].room_type_id IN
      \A checkIn \in Instants, checkOut \in Instants :
        (/\ totalRoomCount(t) = 1
         /\ ~checkRoomAvailability(t, checkIn, checkOut)
         /\ \A j \in nonCancelled(t) :
              overlapsRequest(j, checkIn, checkOut) => j = i)
        => /\ checkRoomAvailability(t, checkIn, checkOut)'
           /\ \A input \in DateRequests(t) :
                (input.check_in_date = checkIn /\ input.check_out_date = checkOut)
                  => i \notin conflictingBookings(input)'

C9_CancelledIgnored == [](C9_Ignored) /\ [][C9_Step]_vars

C9_Witness ==
  /\ last \in {"cancelBooking", "updateBooking"}
  /\ \E i \in BookingIds :
       /\ bookings[i].status = "cancelled"
       /\ bookings[i].check_in_date < bookings[i].check_out_date
       /\ totalRoomCount(bookings[i].room_type_id) = 1
       /\ nonCancelled(bookings[i].room_type_id) = {}
       /\ checkRoomAvailability(bookings[i].room_type_id,
            fromISODate(bookings[i].check_in_date),
            fromISODate(bookings[i].check_out_date))

\* C10: every persisted booking has its stored check-out date strictly after
\* its stored check-in date and a guest count within the max_occupancy of its
\* room type.
C10_BookingDataInvariant ==
  \A i \in BookingIds :
    /\ bookings[i].check_in_date < bookings[i].check_out_date
    /\ bookings[i].guests <= roomTypes[bookings[i].room_type_id].max_occupancy

\* C11: createBooking rejects a request whose user does not exist or whose
\* room type does not exist or is inactive (NotFound), whose check-out is not
\* strictly after its check-in (InvalidDateRange), or whose guests exceed the
\* max_occupancy of the room type (CapacityExceeded); every booking that is
\* persisted comes from a request with none of these defects.
userOrRoomTypeMissing(input) ==
  \/ input.user_id \notin users
  \/ input.room_type_id \notin DOMAIN roomTypes
  \/ ~roomTypes[input.room_type_id].is_active

checkOutNotAfterCheckIn(input) == input.check_out_date <= input.check_in_date

checkInIsPast(input) ==
  ~input.env.test /\ toISODate(input.check_in_date) < input.env.today

tooManyGuests(input) ==
  /\ input.room_type_id \in DOMAIN roomTypes
  /\ input.guests > roomTypes[input.room_type_id].max_occupancy

C11_Rejects ==
  \A input \in CreateBookingInputs :
    LET err == createBookingError(input) IN
    /\ userOrRoomTypeMissing(input) => err \in {"UserNotFound", "RoomTypeNotFound"}
    /\ (~userOrRoomTypeMissing(input) /\ checkOutNotAfterCheckIn(input))
         => err = "InvalidDateRange"
    /\ (/\ ~userOrRoomTypeMissing(input) /\ ~checkOutNotAfterCheckIn(input)
        /\ ~checkInIsPast(input) /\ tooManyGuests(input))
         => err = "CapacityExceeded"
    /\ (\/ userOrRoomTypeMissing(input) \/ checkOutNotAfterCheckIn(input)
        \/ tooManyGuests(input))
         => err \in {"UserNotFound", "RoomTypeNotFound", "InvalidDateRange",
                     "PastCheckIn", "CapacityExceeded"}

C11_Step ==
  Len(bookings') > Len(bookings) =>
    \E input \in CreateBookingInputs :
      /\ ~userOrRoomTypeMissing(input)
      /\ ~checkOutNotAfterCheckIn(input)
      /\ ~tooManyGuests(input)
      /\ \E r \in RoomIds \cup {NULL} :
           bookings' = Append(bookings, newBooking(input, r))

C11_CreateBookingRejections == [](C11_Rejects) /\ [][C11_Step]_vars

C11_Witness ==
  /\ last = "createBooking"
  /\ \E t \in RoomTypeIds : ~roomTypes[t].is_active
  /\ \E input \in CreateBookingInputs :
       /\ input.user_id \in users
       /\ input.room_type_id \in DOMAIN roomTypes
       /\ ~roomTypes[input.room_type_id].is_active
       /\ createBookingError(input) = "RoomTypeNotFound"
  /\ \E input \in CreateBookingInputs :
       createBookingError(input) = "CapacityExceeded"
  /\ \E input \in CreateBookingInputs :
       createBookingError(input) = "InvalidDateRange"

\* C12: every booking persisted by createBooking has total_amount equal to
\* base_price times nights, nights being the whole-day difference between its
\* check-out and check-in dates and at least 1.
storedNights(i) == bookings[i].check_out_date - bookings[i].check_in_date

C12_TotalAmount ==
  \A i \in BookingIds :
    /\ storedNights(i) >= 1
    /\ bookings[i].total_amount
         = roomTypes[bookings[i].room_type_id].base_price * storedNights(i)


\* C13: for calendar dates checkIn < checkOut, calculateRoomPrice returns the
\* sum over the days d with checkIn <= d < checkOut of base_price times m(d),
\* m(d) the multiplier of the first active rule of the room type whose range
\* [start_date, end_date] contains d, and 1 when there is none; inactive rules
\* and rules of other room types play no part.
ruleApplies(k, roomTypeId, d) ==
  /\ seasonalPricing[k].room_type_id = roomTypeId
  /\ seasonalPricing[k].is_active
  /\ seasonalPricing[k].start_date <= d
  /\ d <= seasonalPricing[k].end_date

multiplierOfDay(roomTypeId, d) ==
  LET applying == {k \in 1..Len(seasonalPricing) : ruleApplies(k, roomTypeId, d)}
  IN IF applying = {} THEN 100
     ELSE seasonalPricing[CHOOSE k \in applying : \A j \in applying : k <= j].price_multiplier

RECURSIVE sumOfDayCharges(_, _, _)
sumOfDayCharges(roomTypeId, d, checkOutDay) ==
  IF d < checkOutDay
  THEN roomTypes[roomTypeId].base_price * multiplierOfDay(roomTypeId, d)
         + sumOfDayCharges(roomTypeId, d + 1, checkOutDay)
  ELSE 0

C13_SeasonalPrice ==
  \A t \in RoomTypeIds, checkInDay \in Days, checkOutDay \in Days :
    checkInDay < checkOutDay =>
      calculateRoomPrice(t, fromISODate(checkInDay), fromISODate(checkOutDay))
        = [error |-> "ok", price |-> sumOfDayCharges(t, checkInDay, checkOutDay)]

C13_Witness ==
  /\ Len(seasonalPricing) = 2
  /\ \E t \in RoomTypeIds :
       /\ ruleApplies(1, t, 0) /\ ruleApplies(2, t, 0)
       /\ seasonalPricing[1].price_multiplier # seasonalPricing[2].price_multiplier
       /\ reply.op = "calculateRoomPrice"
       /\ reply.result = calculateRoomPrice(t, fromISODate(0), fromISODate(1))
       /\ reply.result.price
            = roomTypes[t].base_price * seasonalPricing[1].price_multiplier

\* C14: for every room type, every table of seasonal rules and all calendar
\* dates A < B < C, price(A, C) = price(A, B) + price(B, C).
quote(roomTypeId, fromDay, toDay) ==
  calculateRoomPrice(roomTypeId, fromISODate(fromDay), fromISODate(toDay)).price

C14_Additive ==
  \A t \in RoomTypeIds, A \in Days, B \in Days, C \in Days :
    (A < B /\ B < C) => quote(t, A, C) = quote(t, A, B) + quote(t, B, C)

C14_Witness ==
  \E t \in RoomTypeIds, k \in 1..Len(seasonalPricing) :
    /\ ruleApplies(k, t, 0)
    /\ \A j \in 1..Len(seasonalPricing) : ~ruleApplies(j, t, 1)
    /\ reply.op = "calculateRoomPrice"
    /\ reply.result = calculateRoomPrice(t, fromISODate(0), fromISODate(2))
    /\ reply.result.price = quote(t, 0, 1) + quote(t, 1, 2)
    /\ quote(t, 0, 1) # quote(t, 1, 2)

\* C15: calculateRoomPrice, checkRoomAvailability, searchAvailableRooms and
\* validatePromoCode change no table, so used_count changes only in a
\* usePromoCode call, and a query asked again in the state a query left
\* returns what it would have returned before.
QueryOps ==
  {"calculateRoomPrice", "checkRoomAvailability", "searchAvailableRooms",
   "validatePromoCode"}

C15_Step ==
  /\ reply'.op \in QueryOps =>
       UNCHANGED <<requests, payments, users, roomTypes, rooms, bookings, seasonalPricing, promoOffers>>
  /\ reply'.op = "validatePromoCode" =>
       \A code \in PromoCodes, bookingAmount \in BookingAmounts, today \in Instants :
         validatePromoCode(code, bookingAmount, today)'
           = validatePromoCode(code, bookingAmount, today)
  /\ reply'.op = "calculateRoomPrice" =>
       \A t \in RoomTypeIdInputs, checkIn \in DateInstants, checkOut \in DateInstants :
         calculateRoomPrice(t, checkIn, checkOut)' = calculateRoomPrice(t, checkIn, checkOut)
  /\ reply'.op = "checkRoomAvailability" =>
       \A t \in RoomTypeIdInputs, checkIn \in DateInstants, checkOut \in DateInstants :
         checkRoomAvailability(t, checkIn, checkOut)'
           = checkRoomAvailability(t, checkIn, checkOut)
  /\ reply'.op = "searchAvailableRooms" =>
       \A input \in SearchRoomsInputs :
         searchAvailableRooms(input)' = searchAvailableRooms(input)
  /\ \A id \in PromoOfferIds :
       promoOffers'[id].used_count # promoOffers[id].used_count
         => reply'.op = "usePromoCode"

C15_QueriesArePure == [][C15_Step]_vars

C15_Witness ==
  /\ reply.op = "validatePromoCode"
  /\ reply.result.valid
  /\ promoOffers[reply.result.offer].used_count = 1
  /\ promoOffers[reply.result.offer].usage_limit = 2
  /\ bookings # <<>>
  /\ seasonalPricing # <<>>

\* C16: validatePromoCode returns valid = false with discount 0 when the code
\* does not exist (offer null), the offer is inactive, the current date is
\* outside [valid_from, valid_until], usage_limit is set and used_count has
\* reached it, or min_booking_amount is set and the booking amount is below
\* it; in every other case it returns valid = true.
promoRejected(code, bookingAmount, today) ==
  \/ getPromoOfferByCode(code) = NULL
  \/ LET offer == promoOffers[getPromoOfferByCode(code)] IN
       \/ ~offer.is_active
       \/ toISODate(today) < offer.valid_from
       \/ toISODate(today) > offer.valid_until
       \/ offer.usage_limit # NULL /\ offer.used_count >= offer.usage_limit
       \/ offer.min_booking_amount # NULL /\ bookingAmount < offer.min_booking_amount

C16_PromoValidity ==
  \A code \in PromoCodes, bookingAmount \in BookingAmounts, today \in Instants :
    LET result == validatePromoCode(code, bookingAmount, today) IN
    /\ result.valid <=> ~promoRejected(code, bookingAmount, today)
    /\ promoRejected(code, bookingAmount, today) => result.discount = 0
    /\ getPromoOfferByCode(code) = NULL => result.offer = NULL

\* C17: for a valid code the discount is bookingAmount x discount_value / 100
\* for a percentage offer and discount_value for a fixed offer, replaced by
\* max_discount when that is set and the raw discount exceeds it; so the
\* discount never exceeds a max_discount that is set.
rawDiscount(offer, bookingAmount) ==
  IF offer.discount_type = "percentage"
  THEN (bookingAmount * offer.discount_value) \div 100
  ELSE offer.discount_value

C17_PromoDiscount ==
  \A code \in PromoCodes, bookingAmount \in BookingAmounts, today \in Instants :
    LET result == validatePromoCode(code, bookingAmount, today) IN
    result.valid =>
      LET offer == promoOffers[result.offer] IN
      /\ result.discount =
           IF offer.max_discount # NULL /\ rawDiscount(offer, bookingAmount) > offer.max_discount
           THEN offer.max_discount ELSE rawDiscount(offer, bookingAmount)
      /\ offer.max_discount # NULL => result.discount <= offer.max_discount

C17_Witness ==
  /\ reply.op = "validatePromoCode"
  /\ reply.result.valid
  /\ promoOffers[reply.result.offer].discount_type = "percentage"
  /\ promoOffers[reply.result.offer].max_discount # NULL
  /\ reply.result.discount = promoOffers[reply.result.offer].max_discount
  /\ \E bookingAmount \in BookingAmounts :
       rawDiscount(promoOffers[reply.result.offer], bookingAmount) > reply.result.discount

\* C18: every usePromoCode call adds exactly 1 to used_count of the offer it
\* names and changes no other offer; when the calls of several clients
\* interleave, used_count is the number of calls made for the code (no update
\* is lost); no operation ever lowers used_count.
usesOf(code) ==
  Cardinality({c \in Clients : clients[c].pc = "used" /\ clients[c].code = code})

C18_Count ==
  \A id \in PromoOfferIds : promoOffers[id].used_count = usesOf(promoOffers[id].code)

C18_Step ==
  /\ \A id \in PromoOfferIds :
       promoOffers'[id].used_count >= promoOffers[id].used_count
  /\ \A c \in Clients :
       (clients[c].pc # "used" /\ clients'[c].pc = "used") =>
         \E id \in PromoOfferIds :
           /\ promoOffers[id].code = clients'[c].code
           /\ promoOffers' = [promoOffers EXCEPT ![id].used_count = @ + 1]

C18_AtomicIncrement == [](C18_Count) /\ [][C18_Step]_vars

C18_Witness ==
  /\ \A c \in Clients : clients[c].pc = "used" /\ clients[c].code = "SUMMER20"
  /\ \E id \in PromoOfferIds :
       promoOffers[id].code = "SUMMER20" /\ promoOffers[id].used_count = 3

\* C19: when every client calls usePromoCode at most once, and only for a code
\* its own validatePromoCode call accepted, used_count of an offer with a
\* usage_limit never exceeds the limit, whatever the interleaving.
C19_UsageLimit ==
  \A id \in PromoOfferIds :
    promoOffers[id].usage_limit # NULL =>
      promoOffers[id].used_count <= promoOffers[id].usage_limit

\* C20: room assignment stays within the room type. updateBooking accepts a
\* non-null room_id only when that room exists, has its availability flag
\* true and belongs to the booking's room type, and answers a room of another
\* type with RoomTypeMismatch; createBooking assigns only rooms of the
\* requested type; so every booking's non-null room_id references a room of
\* the booking's own room type.
roomOfOwnType(booking) ==
  /\ booking.room_id \in DOMAIN rooms
  /\ rooms[booking.room_id].room_type_id = booking.room_type_id

C20_Table ==
  \A input \in UpdateBookingInputs :
    (input.id \in BookingIds /\ input.room_id # Undefined /\ input.room_id # NULL)
    => /\ updateBookingError(input) = "ok" =>
            /\ input.room_id \in DOMAIN rooms
            /\ rooms[input.room_id].is_available
            /\ rooms[input.room_id].room_type_id = bookings[input.id].room_type_id
       /\ (/\ input.room_id \in DOMAIN rooms
           /\ rooms[input.room_id].is_available
           /\ rooms[input.room_id].room_type_id # bookings[input.id].room_type_id)
          => updateBookingError(input) = "RoomTypeMismatch"

C20_Assigned ==
  \A i \in BookingIds : bookings[i].room_id # NULL => roomOfOwnType(bookings[i])

C20_Step ==
  /\ Len(bookings') > Len(bookings) =>
       LET row == bookings'[Len(bookings')]
       IN row.room_id # NULL =>
            /\ row.room_id \in DOMAIN rooms
            /\ rooms[row.room_id].room_type_id = row.room_type_id
  /\ \A i \in BookingIds :
       /\ bookings'[i].room_type_id = bookings[i].room_type_id
       /\ (bookings'[i].room_id # bookings[i].room_id /\ bookings'[i].room_id # NULL)
          => /\ last' = "updateBooking"
             /\ bookings'[i].room_id \in DOMAIN rooms
             /\ rooms[bookings'[i].room_id].is_available
             /\ rooms[bookings'[i].room_id].room_type_id = bookings[i].room_type_id

C20_RoomWithinType == [](C20_Table /\ C20_Assigned) /\ [][C20_Step]_vars

\* two bookings of one type over the same nights share a room, which only a
\* reassignment by updateBooking produces
C20_Witness ==
  /\ last = "updateBooking"
  /\ \E i, j \in BookingIds :
       /\ i # j
       /\ bookings[i].status = "pending" /\ bookings[j].status = "pending"
       /\ bookings[i].room_type_id = bookings[j].room_type_id
       /\ bookings[i].check_in_date = bookings[j].check_in_date
       /\ bookings[i].check_out_date = bookings[j].check_out_date
       /\ bookings[i].room_id # NULL
       /\ bookings[i].room_id = bookings[j].room_id

\* C21: updateBooking changes only the fields the request provides among
\* room_id, status and special_requests; neither updateBooking nor
\* cancelBooking ever changes a booking's user, room type, check-in and
\* check-out dates, guest count or total_amount.
sameStay(old, new) ==
  /\ new.user_id = old.user_id
  /\ new.room_type_id = old.room_type_id
  /\ new.check_in_date = old.check_in_date
  /\ new.check_out_date = old.check_out_date
  /\ new.guests = old.guests
  /\ new.total_amount = old.total_amount

C21_Provided ==
  \A input \in UpdateBookingTextInputs :
    updateBookingError(input) = "ok" =>
      LET old == bookings[input.id]
          new == updatedBooking(input)
      IN /\ sameStay(old, new)
         /\ new.room_id = IF input.room_id = Undefined
                          THEN old.room_id ELSE input.room_id
         /\ new.status = IF input.status = "undefined"
                         THEN old.status ELSE input.status
         /\ new.special_requests = IF input.special_requests = "undefined"
                                   THEN old.special_requests
                                   ELSE input.special_requests

C21_Step ==
  /\ Len(bookings') >= Len(bookings)
  /\ \A i \in BookingIds :
       /\ sameStay(bookings[i], bookings'[i])
       /\ last' = "cancelBooking" =>
            /\ bookings'[i].room_id = bookings[i].room_id
            /\ bookings'[i].special_requests = bookings[i].special_requests
       /\ bookings'[i] # bookings[i] =>
            /\ last' \in {"updateBooking", "cancelBooking"}
            /\ \A j \in BookingIds \ {i} : bookings'[j] = bookings[j]

C21_UpdateFrame == [](C21_Provided) /\ [][C21_Step]_vars

\* a booking created with a text keeps it through two status updates, and
\* another booking's text was cleared by an update
C21_Witness ==
  /\ last = "updateBooking"
  /\ \E i, j \in BookingIds :
       /\ bookings[i].status = "checked_in"
       /\ bookings[i].special_requests = "late arrival"
       /\ bookings[i].total_amount = 200
       /\ bookings[j].status = "cancelled"
       /\ bookings[j].special_requests = "null"

\* C22: calculateRoomPrice fails with NotFound when the room type does not
\* exist and with InvalidDateRange when checkOut is not strictly after checkIn
\* (equal instants included); for an existing room type and checkOut after
\* checkIn it returns a price and never fails.
C22_PriceErrors ==
  \A roomTypeId \in RoomTypeIdInputs, checkIn \in Instants, checkOut \in Instants :
    LET answer == calculateRoomPrice(roomTypeId, checkIn, checkOut)
    IN IF roomTypeId \notin DOMAIN roomTypes
       THEN answer.error = "RoomTypeNotFound"
       ELSE IF checkOut <= checkIn
       THEN answer.error = "InvalidDateRange"
       ELSE answer.error = "ok" /\ answer.price > 0

\* with two rules stored, one quote was refused for equal dates
C22_Witness ==
  /\ Len(seasonalPricing) = 2
  /\ reply.op = "calculateRoomPrice"
  /\ reply.result.error = "InvalidDateRange"
  /\ \E roomTypeId \in RoomTypeIds, checkIn \in Instants :
       /\ calculateRoomPrice(roomTypeId, checkIn, checkIn + 1).error = "ok"
       /\ calculateRoomPrice(3, checkIn, checkIn + 1).error = "RoomTypeNotFound"

\* C23: searchAvailableRooms returns exactly the room types that are active,
\* have max_occupancy >= the requested guest count, match the requested
\* category when one is given, and for which checkRoomAvailability returns
\* true for the requested dates; no inactive, too-small or unavailable room
\* type is ever returned.
qualifies(t, input) ==
  /\ roomTypes[t].is_active
  /\ roomTypes[t].max_occupancy >= input.guests
  /\ input.room_type \in roomTypeEnum => roomTypes[t].type = input.room_type
  /\ checkRoomAvailability(t, input.check_in_date, input.check_out_date)

C23_SearchExact ==
  \A input \in SearchRoomsTypeInputs :
    /\ \A t \in RoomTypeIds : t \in searchAvailableRooms(input) <=> qualifies(t, input)
    /\ searchAvailableRooms(input) \subseteq RoomTypeIds

\* a search answered with room type 2 alone while room type 1 is inactive
\* and fully booked on the first night
C23_Witness ==
  /\ reply.op = "searchAvailableRooms"
  /\ reply.result = {2}
  /\ ~roomTypes[1].is_active
  /\ roomTypes[2].max_occupancy = 2
  /\ ~checkRoomAvailability(1, fromISODate(0), fromISODate(1))

\* C24: nothing is hard-deleted. No operation removes a booking or a room
\* type record: cancelBooking only sets a status and deleteRoomType only
\* clears the active flag. So every booking references an existing room type,
\* and after deleteRoomType the type is rejected by createBooking and omitted
\* from getRoomTypes while its existing bookings remain.
C24_Kept ==
  /\ \A i \in BookingIds : bookings[i].room_type_id \in DOMAIN roomTypes
  /\ \A t \in DOMAIN roomTypes :
       ~roomTypes[t].is_active =>
         /\ t \notin getRoomTypes
         /\ \A input \in CreateBookingTextInputs :
              input.room_type_id = t => createBookingError(input) = "RoomTypeNotFound"

C24_Step ==
  /\ DOMAIN roomTypes \subseteq DOMAIN roomTypes'
  /\ Len(bookings') >= Len(bookings)
  /\ \A i \in BookingIds :
       \/ bookings'[i] = bookings[i]
       \/ /\ last' = "cancelBooking"
          /\ bookings'[i] = [bookings[i] EXCEPT !.status = "cancelled"]
  /\ (last' = "deleteRoomType" /\ roomTypes' # roomTypes) =>
       /\ bookings' = bookings
       /\ \E id \in DOMAIN roomTypes :
            roomTypes' = [roomTypes EXCEPT ![id].is_active = FALSE]

C24_NothingDeleted == [](C24_Kept) /\ [][C24_Step]_vars

\* room type 1 was soft-deleted after a booking of it was made: the booking
\* is still pending and getRoomTypes lists room type 2 alone
C24_Witness ==
  /\ last = "deleteRoomType"
  /\ ~roomTypes[1].is_active
  /\ \E i \in BookingIds :
       bookings[i].room_type_id = 1 /\ bookings[i].status = "pending"
  /\ reply.op = "getRoomTypes"
  /\ reply.result = {2}

\* C25: processRefund fails with InvalidRefundAmount, leaving the payment
\* unchanged, when the refund amount exceeds the payment's original amount or
\* is zero or negative, and fails with NotFound for an unknown payment;
\* otherwise it sets the payment status to refunded and leaves the payment
\* amount unchanged.
InvalidRefundAmount == {"RefundExceedsPayment", "RefundNotPositive"}

C25_Outcome ==
  \A paymentId \in 1..(MaxPayments + 1), amount \in RefundAmounts :
    LET err == processRefundError(paymentId, amount)
    IN IF paymentId \notin PaymentIds THEN err = "PaymentNotFound"
       ELSE IF amount > payments[paymentId].amount \/ amount <= 0
       THEN err \in InvalidRefundAmount
       ELSE /\ err = "ok"
            /\ refundedPayment(paymentId).payment_status = "refunded"
            /\ refundedPayment(paymentId).amount = payments[paymentId].amount

C25_Step ==
  reply'.op = "processRefund" =>
    IF reply'.result = "ok"
    THEN \E paymentId \in PaymentIds :
           /\ payments'[paymentId].payment_status = "refunded"
           /\ payments'[paymentId].amount = payments[paymentId].amount
           /\ payments'[paymentId].booking_id = payments[paymentId].booking_id
           /\ \A other \in PaymentIds \ {paymentId} : payments'[other] = payments[other]
    ELSE /\ reply'.result \in InvalidRefundAmount \cup {"PaymentNotFound"}
         /\ payments' = payments

C25_ProcessRefund == [](C25_Outcome) /\ [][C25_Step]_vars

\* a payment of 200 was refunded, and a refund of 300, of 0 or of
\* an unknown payment would now be refused
C25_Witness ==
  /\ reply.op = "processRefund"
  /\ reply.result = "ok"
  /\ Len(payments) = 1
  /\ payments[1].payment_status = "refunded"
  /\ payments[1].transaction_id = "refund_"
  /\ payments[1].amount = 200
  /\ processRefundError(1, 300) = "RefundExceedsPayment"
  /\ processRefundError(1, 0) = "RefundNotPositive"
  /\ processRefundError(2, 100) = "PaymentNotFound"

\* C26: no room-level double-booking. After any sequence of createBooking,
\* updateBooking (room reassignment included) and cancelBooking calls, no two
\* non-cancelled bookings whose date ranges overlap are assigned the same room.
staysOverlap(i, j) ==
  /\ bookings[i].check_in_date < bookings[j].check_out_date
  /\ bookings[j].check_in_date < bookings[i].check_out_date

C26_NoRoomDoubleBooking ==
  \A i, j \in BookingIds :
    (/\ i # j
     /\ bookings[i].status # "cancelled"
     /\ bookings[j].status # "cancelled"
     /\ staysOverlap(i, j)
     /\ bookings[i].room_id # NULL)
    => bookings[i].room_id # bookings[j].room_id

\* C27: room assignment in createBooking is best-effort: there are reachable
\* states in which the capacity check passes but no specific available room
\* can be pinned, and createBooking then succeeds and persists the booking
\* with room_id = null.
createdWithoutRoom ==
  /\ last = "createBooking"
  /\ bookings[Len(bookings)].room_id = NULL

C27_Pinnable ==
  \A input \in CreateBookingTextInputs :
    createBookingError(input) = "ok" =>
      /\ assignableRooms(input) # {}
      /\ NULL \notin assignedRoomIds(input)

C27_Step ==
  Len(bookings') > Len(bookings) =>
    LET row == bookings'[Len(bookings')]
    IN /\ row.room_id \in availableRooms(row.room_type_id)
       /\ \A i \in BookingIds :
            (/\ bookings[i].room_id = row.room_id
             /\ bookings[i].status # "cancelled")
            => ~(/\ bookings[i].check_in_date < row.check_out_date
                 /\ row.check_in_date < bookings[i].check_out_date)

otherwiseEligible(id, bookingAmount) ==
  /\ promoOffers[id].is_active
  /\ promoOffers[id].usage_limit # NULL =>
       promoOffers[id].used_count < promoOffers[id].usage_limit
  /\ promoOffers[id].min_booking_amount # NULL =>
       bookingAmount >= promoOffers[id].min_booking_amount

C28_InclusiveRange ==
  \A id \in PromoOfferIds, bookingAmount \in BookingAmounts, today \in Instants :
    otherwiseEligible(id, bookingAmount) =>
      LET result == validatePromoCode(promoOffers[id].code, bookingAmount, today)
      IN /\ (/\ promoOffers[id].valid_from <= toISODate(today)
             /\ toISODate(today) <= promoOffers[id].valid_until) => result.valid
         /\ result.valid <=> id \in getActivePromoOffers(today)

\* C29: status transitions stay valid under concurrency. When updateBooking
\* and cancelBooking calls on the same booking run concurrently, each reading
\* the current status, validating, then writing, every change of the
\* persisted status is an allowed transition of the state machine; a booking
\* that has become cancelled is never afterwards written to confirmed or
\* checked_in by a racing request.
C29_Step ==
  \A i \in BookingIds :
    /\ bookings'[i].status # bookings[i].status =>
         <<bookings[i].status, bookings'[i].status>> \in AllowedPairs
    /\ bookings[i].status = "cancelled" =>
         bookings'[i].status \notin {"confirmed", "checked_in"}

C29_ConcurrentTransitions == [][C29_Step]_vars

\* C30: failure is all-or-nothing. A createBooking, updateBooking or
\* cancelBooking call that ends in an error leaves the bookings table as it
\* was before the call: the only statement of a call that changes the table
\* is the one the call ends successfully with, so no statement of a call that
\* throws has written anything. In particular an updateBooking whose room_id
\* is valid but whose status transition is invalid applies neither change.
endsOk(before, after) ==
  before.pc # "done" /\ after.pc = "done" /\ after.result = "ok"

C30_Step ==
  /\ bookings' # bookings =>
       \/ \E p \in Procs : endsOk(procs[p], procs'[p])
       \/ \E p \in Requesters : endsOk(requests[p], requests'[p])
  /\ \A p \in Procs :
       (procs'[p] # procs[p] /\ ~endsOk(procs[p], procs'[p])) =>
         bookings' = bookings
  /\ \A p \in Requesters :
       (requests'[p] # requests[p] /\ ~endsOk(requests[p], requests'[p])) =>
         bookings' = bookings

C30_AllOrNothing == [][C30_Step]_vars

\* an updateBooking that named an available room of the booking's type and a
\* status the booking cannot move to has thrown, and the booking has neither
C30_Witness ==
  \E p \in Requesters :
    LET request == requests[p] IN
    /\ request.pc = "done"
    /\ request.op = "updateBooking"
    /\ request.result = "InvalidStatusTransition"
    /\ request.input.room_id \in DOMAIN rooms
    /\ rooms[request.input.room_id].is_available
    /\ rooms[request.input.room_id].room_type_id
         = bookings[request.input.id].room_type_id
    /\ bookings[request.input.id].room_id # request.input.room_id
    /\ bookings[request.input.id].status # request.input.status
    /\ \E q \in Procs : procs[q].result \notin {"none", "ok"}

====
